---------------------------- MODULE Spec2Model ----------------------------
(***************************************************************************)
(* Model of py-mpspline: the matrix cache/builder, the parameter           *)
(* estimator, the prediction engine, the fit-quality estimator and the     *)
(* spline_one / spline_multiple drivers of src/src/mpspline/algorithm.py.  *)
(*                                                                         *)
(* Numbers.  A Python float is modelled as an extended rational <<p, q>>:  *)
(* q > 0 and gcd(p, q) = 1 for a finite value, <<0, 0>> for NaN, <<1, 0>>  *)
(* for +inf and <<-1, 0>> for -inf.  Arithmetic is exact: floating-point   *)
(* rounding is not modelled, so "singular" means an exactly zero           *)
(* determinant.  A vector is a sequence of numbers, a matrix a sequence of *)
(* rows.                                                                   *)
(***************************************************************************)
EXTENDS Integers, Sequences, FiniteSets, TLC

-----------------------------------------------------------------------------
(* Extended rational arithmetic (IEEE-754 semantics for NaN and inf).      *)

Abs(a) == IF a < 0 THEN -a ELSE a

Sign(a) == IF a < 0 THEN -1 ELSE IF a > 0 THEN 1 ELSE 0

RECURSIVE GCD(_, _)
GCD(a, b) == IF b = 0 THEN a ELSE GCD(b, a % b)

\* Lowest terms, positive denominator; a zero denominator keeps only the sign.
Norm(p, q) ==
    IF q = 0 THEN <<Sign(p), 0>>
    ELSE LET g == GCD(Abs(p), Abs(q))
             s == IF q < 0 THEN -1 ELSE 1
         IN  <<s * (p \div g), s * (q \div g)>>

NaN == <<0, 0>>
Inf == <<1, 0>>
Zero == <<0, 1>>
One == <<1, 1>>

Num(n) == <<n, 1>>
Frac(p, q) == Norm(p, q)

isnan(x) == x[1] = 0 /\ x[2] = 0

\* A nan is a float object, and a tuple holding one equals another tuple only
\* where both hold the same object.  NanObject(id) is the nan object `id` that
\* the caller holds and can pass again (float("nan") bound to a name, np.nan);
\* NaN is a nan made where it is used, an object of its own each time.
NanObject(id) == <<0, 0, id>>

\* The number a float holds, whichever object holds it.
Value(x) == <<x[1], x[2]>>
IsInf(x) == x[1] # 0 /\ x[2] = 0
IsFinite(x) == x[2] # 0

RNeg(x) == <<-x[1], x[2]>>

RAdd(x, y) ==
    IF x[2] = 0 /\ y[2] = 0
    THEN (IF x[1] = y[1] THEN x ELSE NaN)
    ELSE IF x[2] = 0 THEN x
    ELSE IF y[2] = 0 THEN y
    ELSE LET g == GCD(x[2], y[2])
         IN  Norm(x[1] * (y[2] \div g) + y[1] * (x[2] \div g), x[2] * (y[2] \div g))

RSub(x, y) == RAdd(x, RNeg(y))

RMul(x, y) ==
    IF x[2] = 0 \/ y[2] = 0
    THEN <<Sign(x[1]) * Sign(y[1]), 0>>
    ELSE LET g1 == GCD(Abs(x[1]), y[2])
             g2 == GCD(Abs(y[1]), x[2])
         IN  Norm((x[1] \div g1) * (y[1] \div g2), (x[2] \div g2) * (y[2] \div g1))

\* 1/0 = inf, 1/inf = 0, 1/NaN = NaN (the sign of a zero is not modelled).
RInv(x) ==
    IF isnan(x) THEN NaN
    ELSE IF x[2] = 0 THEN Zero
    ELSE IF x[1] = 0 THEN Inf
    ELSE Norm(x[2], x[1])

\* Float division as numpy does it: x/0 is +-inf, 0/0 is NaN, no exception.
RDiv(x, y) ==
    IF y[2] # 0 /\ y[1] = 0 THEN <<Sign(x[1]), 0>>
    ELSE RMul(x, RInv(y))

\* Comparisons; anything compared with NaN is FALSE.
RLt(x, y) ==
    /\ ~isnan(x) /\ ~isnan(y)
    /\ IF x[2] = 0 /\ y[2] = 0 THEN x[1] < y[1]
       ELSE IF x[2] = 0 THEN x[1] < 0
       ELSE IF y[2] = 0 THEN y[1] > 0
       ELSE x[1] * y[2] < y[1] * x[2]

RLe(x, y) == ~isnan(x) /\ ~isnan(y) /\ ~RLt(y, x)

\* int(x) of a finite float: truncation toward zero.
IntOf(x) == Sign(x[1]) * (Abs(x[1]) \div x[2])

\* With(x, F) is F(x): a local value computed once and used several times
\* (the assignment of the result of a call to a local variable).
With(x, F(_)) == F(x)

\* The array f itself.  TLC keeps [i \in S |-> e] unevaluated and computes e
\* again at every f[i]; comparing f with itself makes it compute the entries
\* once.
Array(f) == IF f = f THEN f ELSE <<>>

-----------------------------------------------------------------------------
(* Vectors and matrices over the extended rationals.                       *)

RECURSIVE RSum(_)
RSum(v) == IF v = <<>> THEN Zero ELSE RAdd(v[1], RSum(Tail(v)))

Dot(u, v) == RSum([i \in 1..Len(u) |-> RMul(u[i], v[i])])

NRows(M) == Len(M)

Transpose(M, ncols) == Array([j \in 1..ncols |-> [i \in 1..Len(M) |-> M[i][j]]])

\* A (r x k) times B (k x c); c is passed because an empty B has no rows to ask.
MatMul(A, B, c) ==
    Array([i \in 1..Len(A) |->
             [j \in 1..c |-> RSum([k \in 1..Len(B) |-> RMul(A[i][k], B[k][j])])]])

MatVec(A, v) == Array([i \in 1..Len(A) |-> Dot(A[i], v)])

MatScale(a, M) == Array([i \in 1..Len(M) |-> [j \in 1..Len(M[i]) |-> RMul(a, M[i][j])]])

MatAdd(A, B) == Array([i \in 1..Len(A) |-> [j \in 1..Len(A[i]) |-> RAdd(A[i][j], B[i][j])]])

Eye(n) == [i \in 1..n |-> [j \in 1..n |-> IF i = j THEN One ELSE Zero]]

ZeroMat(r, c) == [i \in 1..r |-> [j \in 1..c |-> Zero]]

Trace(M) == RSum([i \in 1..Len(M) |-> M[i][i]])

\* M without row r and column c.
Minor(M, r, c) ==
    Array([i \in 1..(Len(M) - 1) |->
             [j \in 1..(Len(M) - 1) |->
                 M[IF i < r THEN i ELSE i + 1][IF j < c THEN j ELSE j + 1]]])

\* Determinant by expansion along the first row.
RECURSIVE Det(_)
Det(M) ==
    IF Len(M) = 0 THEN One
    ELSE IF Len(M) = 1 THEN M[1][1]
    ELSE RSum([j \in 1..Len(M) |->
                 RMul(IF j % 2 = 1 THEN M[1][j] ELSE RNeg(M[1][j]), Det(Minor(M, 1, j)))])

\* The exact inverse of a non-singular square matrix: adjugate over determinant
\* (what LAPACK's LU-based inverse computes, without rounding).
ExactInverse(M) ==
    With(Det(M), LAMBDA d :
        Array([i \in 1..Len(M) |->
                 [j \in 1..Len(M) |->
                     RDiv(IF (i + j) % 2 = 0 THEN Det(Minor(M, j, i))
                          ELSE RNeg(Det(Minor(M, j, i))), d)]]))

\* Moore-Penrose pseudo-inverse of a square matrix, exact (Decell's
\* Cayley-Hamilton recursion on B = M M^T): C_j = B B_{j-1}, q_j = tr(C_j)/j,
\* B_j = C_j - q_j I; with r the last j having q_j # 0, M+ = M^T B_{r-1} / q_r.
RECURSIVE DecellStep(_, _, _, _, _)
DecellStep(B, Bprev, j, best, n) ==
    IF j > n THEN best
    ELSE With(MatMul(B, Bprev, n), LAMBDA C :
         With(RDiv(Trace(C), Num(j)), LAMBDA q :
              DecellStep(B, MatAdd(C, MatScale(RNeg(q), Eye(n))), j + 1,
                         IF q = Zero THEN best ELSE <<q, Bprev>>, n)))

PseudoInverse(M) ==
    With(Transpose(M, Len(M)), LAMBDA Mt :
    With(DecellStep(MatMul(M, Mt, Len(M)), Eye(Len(M)), 1, <<Zero, Eye(Len(M))>>, Len(M)),
         LAMBDA best :
            IF best[1] = Zero THEN ZeroMat(Len(M), Len(M))
            ELSE MatScale(RInv(best[1]), MatMul(Mt, best[2], Len(M)))))

-----------------------------------------------------------------------------
(* Depth interval names.  A string is modelled as the sequence of its      *)
(* characters, so that formatting and parsing are computed, not assumed.   *)

DigitChar(d) == CASE d = 0 -> "0" [] d = 1 -> "1" [] d = 2 -> "2" [] d = 3 -> "3"
                  [] d = 4 -> "4" [] d = 5 -> "5" [] d = 6 -> "6" [] d = 7 -> "7"
                  [] d = 8 -> "8" [] d = 9 -> "9"

\* str(n) for n >= 0.
RECURSIVE Digits(_)
Digits(n) == IF n < 10 THEN <<DigitChar(n)>> ELSE Digits(n \div 10) \o <<DigitChar(n % 10)>>

RECURSIVE ZeroPad(_, _)
ZeroPad(str, width) == IF Len(str) >= width THEN str ELSE ZeroPad(<<"0">> \o str, width)

\* f"{n:03d}": sign first, then zero padding to a total width of 3.
Format03d(n) ==
    IF n < 0 THEN <<"-">> \o ZeroPad(Digits(-n), 2) ELSE ZeroPad(Digits(n), 3)

\* f"{top:03d}_{bottom:03d}_cm"
IntervalName(top, bottom) ==
    Format03d(top) \o <<"_">> \o Format03d(bottom) \o <<"_", "c", "m">>

\* _format_depth_names: the same name from the float boundaries, through int().
_format_depth_names(depths_top, depths_bottom) ==
    [i \in 1..(IF Len(depths_top) < Len(depths_bottom) THEN Len(depths_top) ELSE Len(depths_bottom))
        |-> IntervalName(IntOf(depths_top[i]), IntOf(depths_bottom[i]))]

-----------------------------------------------------------------------------
(* Matrix cache/builder: _get_spline_matrices.                             *)

_MAX_CACHE_SIZE == 1000

\* th = db - dt
Thickness(dt, db) == Array([i \in 1..Len(dt) |-> RSub(db[i], dt[i])])

\* gp[i] = dt[i + 1] - db[i]
Gaps(dt, db) == Array([i \in 1..(Len(dt) - 1) |-> RSub(dt[i + 1], db[i])])

\* Faulty variant: the off-diagonal entries taken from the thickness above.
BuildRShifted(th, gp) ==
    Array([i \in 1..Len(gp) |->
             [j \in 1..Len(gp) |->
                 IF i = j THEN RAdd(RMul(Num(2), RAdd(th[i], th[i + 1])), RMul(Num(6), gp[i]))
                 ELSE IF j = i + 1 THEN th[i]
                 ELSE IF i = j + 1 THEN th[j]
                 ELSE Zero]])

\* R: diagonal 2 * (th[i] + th[i+1]) + 6 * gp[i], off-diagonals th[i+1].
BuildR(th, gp) ==
    Array([i \in 1..Len(gp) |->
             [j \in 1..Len(gp) |->
                 IF i = j THEN RAdd(RMul(Num(2), RAdd(th[i], th[i + 1])), RMul(Num(6), gp[i]))
                 ELSE IF j = i + 1 THEN th[i + 1]
                 ELSE IF i = j + 1 THEN th[j + 1]
                 ELSE Zero]])

\* Q: row i has -1 in column i and +1 in column i + 1.
BuildQ(n) ==
    [i \in 1..(n - 1) |->
        [j \in 1..n |-> IF j = i THEN Num(-1) ELSE IF j = i + 1 THEN One ELSE Zero]]

\* scipy's check_finite (the default of linalg.inv and linalg.solve): an
\* array with an inf or a NaN entry is refused with ValueError.
HasNonFinite(M) == \E i \in 1..Len(M) : \E j \in 1..Len(M[i]) : ~IsFinite(M[i][j])

\* Faulty variant: no fallback, a singular R is divided by its zero determinant.
InverseNoFallback(R) ==
    IF HasNonFinite(R) THEN [raised |-> "ValueError"]
    ELSE [raised |-> "", R_inv |-> ExactInverse(R)]

\* linalg.inv(R), and on LinAlgError (R singular) np.linalg.pinv(R).  The
\* ValueError of a non-finite R is not a LinAlgError and is not caught.
InverseOrPinv(R) ==
    IF HasNonFinite(R) THEN [raised |-> "ValueError"]
    ELSE [raised |-> "",
          R_inv |-> IF Det(R) # Zero THEN ExactInverse(R) ELSE PseudoInverse(R)]

\* Z = I + 6 * n * lam * Q^T R^-1 Q
BuildZ(n, lam, Q, R_inv) ==
    MatAdd(Eye(n),
           MatScale(RMul(Num(6 * n), lam),
                    MatMul(MatMul(Transpose(Q, n), R_inv, n - 1), Q, n)))

\* np.array(depths) and depths.astype(float): the numbers of the entries in
\* float objects of the array's own.
AsFloat(depths) == [i \in 1..Len(depths) |-> Value(depths[i])]

\* Lines 74-117: the build for one key.  np.zeros(nb) raises ValueError for
\* nb = -1, that is for an empty depth pattern, and linalg.inv for an R that
\* is not finite.
BuildMatrices(depths_top, depths_bottom, lam) ==
    IF Len(depths_top) = 0 THEN [raised |-> "ValueError"]
    ELSE With(Len(depths_top), LAMBDA n :
         With(Thickness(AsFloat(depths_top), AsFloat(depths_bottom)), LAMBDA th :
         With(Gaps(AsFloat(depths_top), AsFloat(depths_bottom)), LAMBDA gp :
         With(BuildQ(n), LAMBDA Q :
         With(InverseOrPinv(BuildR(th, gp)), LAMBDA inverse :
            IF inverse.raised # "" THEN [raised |-> inverse.raised]
            ELSE [raised |-> "", Z |-> BuildZ(n, Value(lam), Q, inverse.R_inv),
                  R_inv |-> inverse.R_inv, Q |-> Q, th |-> th, gp |-> gp])))))

\* The cache is the dict m of the entries under the keys the model explores,
\* plus the number `extra` of entries under other keys (their matrices are
\* never read by a modelled call, so only their number is kept).
EmptyCache == [m |-> <<>>, extra |-> 0]

CacheLen(cache) == Cardinality(DOMAIN cache.m) + cache.extra

\* Faulty variant: lam left out of the key.
CacheKeyPatternOnly(depths_top, depths_bottom, lam) == <<depths_top, depths_bottom>>

CacheKey(depths_top, depths_bottom, lam) == <<depths_top, depths_bottom, lam>>

\* Lines 70-72: the whole cache is dropped when it holds more than the bound.
ClearIfFull(cache) == IF CacheLen(cache) > _MAX_CACHE_SIZE THEN EmptyCache ELSE cache

\* Faulty variant: the built matrices are returned but never inserted.
CacheStoreDropped(cache, key, value) == cache

\* The key holds a nan that no later key can hold: no lookup finds its entry.
HoldsOwnNan(key) ==
    \/ \E i \in 1..Len(key[1]) : key[1][i] = NaN
    \/ \E i \in 1..Len(key[2]) : key[2][i] = NaN
    \/ (Len(key) > 2 /\ key[3] = NaN)

\* Line 66: cache_key in _MATRIX_CACHE.
CacheHas(cache, key) == ~HoldsOwnNan(key) /\ key \in DOMAIN cache.m

\* Line 117: _MATRIX_CACHE[cache_key] = result.  An entry that no lookup can
\* find is counted only.
CacheStore(cache, key, value) ==
    IF HoldsOwnNan(key) THEN [cache EXCEPT !.extra = @ + 1]
    ELSE [cache EXCEPT !.m = [k \in (DOMAIN cache.m) \cup {key} |->
                                 IF k = key THEN value ELSE cache.m[k]]]

\* _get_spline_matrices(depths_top, depths_bottom, lam) on cache state `cache`:
\* the returned matrices (or the exception) and the cache afterwards.
_get_spline_matrices(cache, depths_top, depths_bottom, lam) ==
    With(CacheKey(depths_top, depths_bottom, lam), LAMBDA cache_key :
        IF CacheHas(cache, cache_key)
        THEN [ret |-> cache.m[cache_key], cache |-> cache, hit |-> TRUE]
        ELSE With(ClearIfFull(cache), LAMBDA cleared :
             With(BuildMatrices(depths_top, depths_bottom, lam), LAMBDA result :
                IF result.raised # ""
                THEN [ret |-> result, cache |-> cleared, hit |-> FALSE]
                ELSE [ret |-> result, cache |-> CacheStore(cleared, cache_key, result),
                      hit |-> FALSE])))

-----------------------------------------------------------------------------
(* Parameter estimator: _estimate_spline_parameters.                       *)

\* linalg.solve(Z, values), and on LinAlgError (Z singular) the minimum-norm
\* least-squares solution np.linalg.lstsq(Z, values)[0] = pinv(Z) values.
\* linalg.solve raises ValueError, which is not caught, when Z or values is
\* not finite and when values has not one entry per row of Z.
SolveOrLstsq(Z, values) ==
    IF HasNonFinite(Z) \/ HasNonFinite(<<values>>) \/ Len(values) # Len(Z)
    THEN [raised |-> "ValueError"]
    ELSE [raised |-> "",
          s_bar |-> IF Det(Z) # Zero THEN MatVec(ExactInverse(Z), values)
                    ELSE MatVec(PseudoInverse(Z), values)]

\* Lines 162-191: the coefficients from the smoothed values s_bar.
CoefficientsFrom(mats, depths_top, depths_bottom, s_bar) ==
    With(Len(depths_top), LAMBDA n :
    With(mats.th, LAMBDA th :
         With(MatVec(MatScale(Num(6), MatMul(mats.R_inv, mats.Q, n)), s_bar), LAMBDA b :
         With(<<Zero>> \o b, LAMBDA b0 :
         With(b \o <<Zero>>, LAMBDA b1 :
         With(Array([i \in 1..n |-> RDiv(RSub(b1[i], b0[i]), RMul(Num(2), th[i]))]),
              LAMBDA gamma :
         With(Array([i \in 1..n |->
                       RSub(RSub(s_bar[i], RDiv(RMul(b0[i], th[i]), Num(2))),
                            RDiv(RMul(gamma[i], RMul(th[i], th[i])), Num(3)))]), LAMBDA alfa :
            [raised |-> "", s_bar |-> s_bar, b |-> b, b0 |-> b0, b1 |-> b1,
             gamma |-> gamma, alfa |-> alfa,
             depth_names |-> _format_depth_names(depths_top, depths_bottom),
             th |-> th, gp |-> mats.gp,
             depths_top |-> depths_top, depths_bottom |-> depths_bottom])))))))

\* Lines 156-191 once the matrices are there.
SplineCoefficients(mats, depths_top, depths_bottom, values) ==
    With(SolveOrLstsq(mats.Z, values), LAMBDA solved :
        IF solved.raised # "" THEN [raised |-> solved.raised]
        ELSE CoefficientsFrom(mats, depths_top, depths_bottom, solved.s_bar))

\* _estimate_spline_parameters(depths_top, depths_bottom, values, lam) on cache
\* state `cache`: the parameters (or the exception), the cache afterwards, and
\* what the builder did (the matrices it returned, whether from the cache).
_estimate_spline_parameters(cache, depths_top, depths_bottom, values, lam) ==
    With(_get_spline_matrices(cache, AsFloat(depths_top), AsFloat(depths_bottom), lam),
         LAMBDA got :
        IF got.ret.raised # ""
        THEN [params |-> got.ret, cache |-> got.cache, mats |-> got.ret, hit |-> got.hit]
        ELSE [params |-> SplineCoefficients(got.ret, depths_top, depths_bottom, values),
              cache |-> got.cache, mats |-> got.ret, hit |-> got.hit])

-----------------------------------------------------------------------------
(* Prediction engine: _fit_spline_predictions.                             *)

\* np.searchsorted(a, v, side="right") and side="left" on a sorted array a:
\* the number of entries <= v, and the number of entries < v.
SearchSortedRight(a, v) == Cardinality({i \in 1..Len(a) : RLe(a[i], v)})
SearchSortedLeft(a, v) == Cardinality({i \in 1..Len(a) : RLt(a[i], v)})

\* Faulty variant: an interval taken to include its lower boundary.
PredictClosedBelow(params, d) ==
    LET x == Num(d)
        n == Len(params.depths_top)
        h == SearchSortedRight(params.depths_top, x)
        in_interval == h >= 1 /\ RLe(x, params.depths_bottom[h])
        p == SearchSortedRight(params.depths_bottom, x)
        q == SearchSortedLeft(params.depths_top, x) + 1
        d_rel == RSub(x, params.depths_top[h])
        phi == RSub(params.alfa[q],
                    RMul(params.b1[p], RSub(params.depths_top[q], params.depths_bottom[p])))
    IN  IF in_interval
        THEN RAdd(RAdd(params.alfa[h], RMul(params.b0[h], d_rel)),
                  RMul(params.gamma[h], RMul(d_rel, d_rel)))
        ELSE IF p >= 1 /\ q <= n
        THEN RAdd(phi, RMul(params.b1[p], RSub(x, params.depths_bottom[p])))
        ELSE NaN

\* Lines 239-279 for one depth d of depths_arr (indices here are 1-based:
\* h = idx + 1, p = prev_idx + 1, q = next_idx + 1).
Predict1cm(params, d) ==
    LET x == Num(d)
        n == Len(params.depths_top)
        h == SearchSortedRight(params.depths_top, x)
        in_interval == h >= 1 /\ RLt(x, params.depths_bottom[h])
        p == SearchSortedRight(params.depths_bottom, x)
        q == SearchSortedLeft(params.depths_top, x) + 1
        d_rel == RSub(x, params.depths_top[h])
        phi == RSub(params.alfa[q],
                    RMul(params.b1[p], RSub(params.depths_top[q], params.depths_bottom[p])))
    IN  IF in_interval
        THEN RAdd(RAdd(params.alfa[h], RMul(params.b0[h], d_rel)),
                  RMul(params.gamma[h], RMul(d_rel, d_rel)))
        ELSE IF p >= 1 /\ q <= n
        THEN RAdd(phi, RMul(params.b1[p], RSub(x, params.depths_bottom[p])))
        ELSE NaN

\* np.clip(x, vlow, vhigh) = minimum(maximum(x, vlow), vhigh); NaN stays NaN.
Clip(x, vlow, vhigh) ==
    IF isnan(x) THEN NaN
    ELSE LET lo == IF RLt(x, vlow) THEN vlow ELSE x
         IN  IF RLt(vhigh, lo) THEN vhigh ELSE lo

\* est_1cm after line 282: entry d + 1 is the estimate at depth d.
Est1cm(params, max_depth, vlow, vhigh) ==
    Array([k \in 1..max_depth |-> Clip(Predict1cm(params, k - 1), vlow, vhigh)])

\* Faulty variant: the mean taken over the whole slice, undefined depths
\* counted in the divisor.
NanMeanOverSlice(slice_vals) ==
    RDiv(RSum(SelectSeq(slice_vals, LAMBDA x : ~isnan(x))), Num(Len(slice_vals)))

\* np.nanmean of a slice with at least one defined entry.
NanMean(slice_vals) ==
    LET defined == SelectSeq(slice_vals, LAMBDA x : ~isnan(x))
    IN  RDiv(RSum(defined), Num(Len(defined)))

\* Faulty variant: a window with no depth of the profile in it yields 0.
AggregateZeroBeyond(est_1cm, max_depth, depth_top, depth_bottom) ==
    LET start == depth_top
        end == IF depth_bottom < max_depth THEN depth_bottom ELSE max_depth
        slice_vals == [k \in 1..(end - start) |-> est_1cm[start + k]]
    IN  IF depth_top >= max_depth THEN Zero
        ELSE IF start < end
        THEN (IF \A k \in 1..Len(slice_vals) : isnan(slice_vals[k]) THEN Zero
              ELSE RDiv(RSum(SelectSeq(slice_vals, LAMBDA x : ~isnan(x))),
                        Num(Len(SelectSeq(slice_vals, LAMBDA x : ~isnan(x))))))
        ELSE Zero

\* Lines 289-305 for one target interval (depth_top >= 0).
Aggregate(est_1cm, max_depth, depth_top, depth_bottom) ==
    LET start == depth_top
        end == IF depth_bottom < max_depth THEN depth_bottom ELSE max_depth
        slice_vals == [k \in 1..(end - start) |-> est_1cm[start + k]]
    IN  IF depth_top >= max_depth THEN NaN
        ELSE IF start < end
        THEN (IF \A k \in 1..Len(slice_vals) : isnan(slice_vals[k]) THEN NaN
              ELSE NanMean(slice_vals))
        ELSE NaN

TargetNames(target_depths) ==
    [j \in 1..Len(target_depths) |-> IntervalName(target_depths[j][1], target_depths[j][2])]

_fit_spline_predictions(params, max_depth, target_depths, vlow, vhigh) ==
    With(Est1cm(params, max_depth, vlow, vhigh), LAMBDA est_1cm :
        [est_1cm |-> est_1cm,
         est_dcm |-> [j \in 1..Len(target_depths) |->
                        Aggregate(est_1cm, max_depth, target_depths[j][1], target_depths[j][2])],
         names_dcm |-> TargetNames(target_depths)])

-----------------------------------------------------------------------------
(* Fit-quality estimator: _calculate_rmse.  A square root is represented   *)
(* by its radicand: the field rmse holding r stands for sqrt(r), so 0      *)
(* stands for 0.0 and NaN for NaN.                                         *)

RECURSIVE InsertNum(_, _)
InsertNum(x, sorted) ==
    IF sorted = <<>> THEN <<x>>
    ELSE IF RLt(x, sorted[1]) THEN <<x>> \o sorted
    ELSE <<sorted[1]>> \o InsertNum(x, Tail(sorted))

RECURSIVE SortNums(_)
SortNums(v) == IF v = <<>> THEN <<>> ELSE InsertNum(v[1], SortNums(Tail(v)))

\* np.percentile(v, pct) with the default linear interpolation, Len(v) >= 1.
Percentile(v, pct) ==
    LET a == SortNums(v)
        pos == RDiv(Num(pct * (Len(a) - 1)), Num(100))
        lo == IntOf(pos)
        frac == RSub(pos, Num(lo))
    IN  IF lo + 1 >= Len(a) THEN a[lo + 1]
        ELSE RAdd(a[lo + 1], RMul(frac, RSub(a[lo + 2], a[lo + 1])))

\* Faulty variant: the error divided by the interquartile range unguarded.
RmseUnguarded(values, fitted) ==
    LET keep == {i \in 1..Len(values) : ~(isnan(values[i]) \/ isnan(fitted[i]))}
        idx == SelectSeq([i \in 1..Len(values) |-> i], LAMBDA i : i \in keep)
        values_clean == [k \in 1..Len(idx) |-> values[idx[k]]]
        fitted_clean == [k \in 1..Len(idx) |-> fitted[idx[k]]]
        mse == RDiv(RSum([k \in 1..Len(idx) |->
                            RMul(RSub(values_clean[k], fitted_clean[k]),
                                 RSub(values_clean[k], fitted_clean[k]))]),
                    Num(Len(idx)))
        iqr == RSub(Percentile(values_clean, 75), Percentile(values_clean, 25))
    IN  IF keep = {} THEN [rmse |-> NaN, rmse_iqr |-> NaN]
        ELSE [rmse |-> mse, rmse_iqr |-> RDiv(mse, RMul(iqr, iqr))]

_calculate_rmse(values, fitted) ==
    LET keep == {i \in 1..Len(values) : ~(isnan(values[i]) \/ isnan(fitted[i]))}
        idx == SelectSeq([i \in 1..Len(values) |-> i], LAMBDA i : i \in keep)
        values_clean == [k \in 1..Len(idx) |-> values[idx[k]]]
        fitted_clean == [k \in 1..Len(idx) |-> fitted[idx[k]]]
        mse == RDiv(RSum([k \in 1..Len(idx) |->
                            RMul(RSub(values_clean[k], fitted_clean[k]),
                                 RSub(values_clean[k], fitted_clean[k]))]),
                    Num(Len(idx)))
        iqr == RSub(Percentile(values_clean, 75), Percentile(values_clean, 25))
    IN  IF keep = {} THEN [rmse |-> NaN, rmse_iqr |-> NaN]
        ELSE [rmse |-> mse,
              rmse_iqr |-> IF RLt(Zero, iqr) THEN RDiv(mse, RMul(iqr, iqr)) ELSE NaN]

-----------------------------------------------------------------------------
(* Data preparation: _validate_and_prepare_data.  A DataFrame is the       *)
(* sequence of its rows [UD, LD, v], v being the column var_name.          *)

Row(ud, ld, v) == [UD |-> ud, LD |-> ld, v |-> v]

RowBefore(r1, r2) ==
    RLt(r1.UD, r2.UD) \/ (r1.UD = r2.UD /\ RLt(r1.LD, r2.LD))

\* The row r, which comes before the rows of `sorted` in the frame, put in
\* its place among them: behind the rows that sort before it, in front of
\* the rows with the same depths.
RECURSIVE InsertRow(_, _)
InsertRow(r, sorted) ==
    IF sorted = <<>> THEN <<r>>
    ELSE IF RowBefore(sorted[1], r) THEN <<sorted[1]>> \o InsertRow(r, Tail(sorted))
    ELSE <<r>> \o sorted

\* sort_values([UD, LD]) of rows without NaN depths: stable, rows with the
\* same depths keep their order.
RECURSIVE SortRows(_)
SortRows(s) == IF s = <<>> THEN <<>> ELSE InsertRow(s[1], SortRows(Tail(s)))

\* s[UD].max(), NaN entries skipped; NaN when there is none.
RECURSIVE MaxSkipNa(_)
MaxSkipNa(v) ==
    IF v = <<>> THEN NaN
    ELSE LET m == MaxSkipNa(Tail(v))
         IN  IF isnan(v[1]) THEN m
             ELSE IF isnan(m) \/ RLt(m, v[1]) THEN v[1] ELSE m

\* Lines 390-397: the missing top of the first row and bottom of the last one.
FillBoundaries(s) ==
    LET s1 == IF isnan(s[1].UD) THEN [s EXCEPT ![1].UD = Zero] ELSE s
        deepest_ud == MaxSkipNa([i \in 1..Len(s1) |-> s1[i].UD])
    IN  IF isnan(s1[Len(s1)].LD)
        THEN [s1 EXCEPT ![Len(s1)].LD = RAdd(deepest_ud, Num(10))]
        ELSE s1

\* Faulty variant: rows of zero thickness are kept.
KeepsEmptyRows(s) ==
    SelectSeq(s, LAMBDA r : RLe(Zero, r.UD) /\ RLe(Zero, r.LD) /\ RLe(r.UD, r.LD))

\* Lines 399-406: negative depths, zero thickness and inverted rows go.
DropBadRows(s) ==
    SelectSeq(s, LAMBDA r : RLe(Zero, r.UD) /\ RLe(Zero, r.LD) /\ RLt(r.UD, r.LD))

Overlaps(s) == \E i \in 1..(Len(s) - 1) : RLt(s[i + 1].UD, s[i].LD)

\* The cleaned rows, or [none |-> TRUE] for the function's None.
_validate_and_prepare_data(df) ==
    With(SelectSeq(df, LAMBDA r : ~isnan(r.v)), LAMBDA notna :
        IF \A i \in 1..Len(df) : isnan(df[i].v) THEN [none |-> TRUE, rows |-> <<>>]
        ELSE IF Len(notna) < 2 THEN [none |-> TRUE, rows |-> <<>>]
        ELSE With(SortRows(DropBadRows(FillBoundaries(notna))), LAMBDA s :
                IF Overlaps(s) THEN [none |-> TRUE, rows |-> <<>>]
                ELSE [none |-> FALSE, rows |-> s]))

-----------------------------------------------------------------------------
(* spline_one and spline_multiple.                                         *)

GLOBALSM_DEPTHS == <<<<0, 5>>, <<5, 15>>, <<15, 30>>, <<30, 60>>, <<60, 100>>, <<100, 200>>>>

Full(n, x) == [i \in 1..n |-> x]

RECURSIVE MaxOf(_)
MaxOf(v) == IF Len(v) = 1 THEN v[1]
            ELSE LET m == MaxOf(Tail(v)) IN IF RLt(v[1], m) THEN m ELSE v[1]

\* Faulty variant: the all-NaN result reporting a zero fit error.
NanResultZeroError(target_depths) ==
    [raised |-> "", path |-> "invalid",
     est_dcm |-> [i \in 1..Len(target_depths) |-> NaN],
     names_dcm |-> [j \in 1..Len(target_depths) |->
                      IntervalName(target_depths[j][1], target_depths[j][2])],
     est_1cm |-> <<>>, rmse |-> Zero, rmse_iqr |-> Zero]

\* Lines 462-468 (and 575-581): the all-NaN result.
NanResult(target_depths) ==
    [raised |-> "", path |-> "invalid",
     est_dcm |-> Full(Len(target_depths), NaN),
     names_dcm |-> TargetNames(target_depths),
     est_1cm |-> <<>>, rmse |-> NaN, rmse_iqr |-> NaN]

\* Faulty variant: the single value returned once, not once per target interval.
SingleHorizonScalar(depths_bottom, values, target_depths) ==
    IF ~IsFinite(depths_bottom[1]) THEN [raised |-> "OverflowError", path |-> "single"]
    ELSE
    [raised |-> "", path |-> "single",
     est_dcm |-> <<values[1]>>,
     names_dcm |-> TargetNames(target_depths),
     est_1cm |-> Full(IntOf(depths_bottom[1]), values[1]),
     rmse |-> Zero, rmse_iqr |-> Zero]

\* Lines 479-485: the single-horizon result.  int() of an infinite lower
\* boundary raises OverflowError.
SingleHorizonResult(depths_bottom, values, target_depths) ==
    IF ~IsFinite(depths_bottom[1]) THEN [raised |-> "OverflowError", path |-> "single"]
    ELSE
    [raised |-> "", path |-> "single",
     est_dcm |-> Full(Len(target_depths), values[1]),
     names_dcm |-> TargetNames(target_depths),
     est_1cm |-> Full(IntOf(depths_bottom[1]), values[1]),
     rmse |-> Zero, rmse_iqr |-> Zero]

\* Lines 490-504: predict, fit quality.
FitResult(params, values, target_depths, vlow, vhigh) ==
    IF params.raised # "" THEN [raised |-> params.raised, path |-> "fit"]
    ELSE With(IntOf(MaxOf(params.depths_bottom)) + 1, LAMBDA max_depth :
         With(_fit_spline_predictions(params, max_depth, target_depths, vlow, vhigh),
              LAMBDA predictions :
         With(_calculate_rmse(values, params.s_bar), LAMBDA q :
            [raised |-> "", path |-> "fit",
             est_dcm |-> predictions.est_dcm,
             names_dcm |-> predictions.names_dcm,
             est_1cm |-> predictions.est_1cm,
             rmse |-> q.rmse, rmse_iqr |-> q.rmse_iqr])))

\* Lines 470-504 on the cleaned rows s.
SplineCleaned(cache, s, lam, target_depths, vlow, vhigh) ==
    With([i \in 1..Len(s) |-> s[i].UD], LAMBDA depths_top :
    With([i \in 1..Len(s) |-> s[i].LD], LAMBDA depths_bottom :
    With([i \in 1..Len(s) |-> s[i].v], LAMBDA values :
        IF Len(depths_top) = 1
        THEN [out |-> SingleHorizonResult(depths_bottom, values, target_depths),
              cache |-> cache, n |-> -1]
        ELSE With(_estimate_spline_parameters(cache, depths_top, depths_bottom, values, lam),
                  LAMBDA est :
                [out |-> FitResult(est.params, values, target_depths, vlow, vhigh),
                 cache |-> est.cache, n |-> Len(depths_top)]))))

\* spline_one(df, var_name, lam, target_depths=..., vlow, vhigh) on cache state
\* `cache`: what it returns (or raises), the cache afterwards, and n, the
\* number of intervals handed to _estimate_spline_parameters (-1: not called).
\* The field path names the return statement taken.
spline_one(cache, df, lam, target_depths, vlow, vhigh) ==
    With(_validate_and_prepare_data(df), LAMBDA s :
        IF s.none
        THEN [out |-> NanResult(target_depths), cache |-> cache, n |-> -1]
        ELSE SplineCleaned(cache, s.rows, lam, target_depths, vlow, vhigh))

\* A DataFrame of several sites is a sequence of rows [SID, UD, LD, v].  The
\* rows of one site, in their order (df.groupby(sid_col) keeps it).
SiteRows(df, site_id) ==
    LET mine == SelectSeq(df, LAMBDA r : r.SID = site_id)
    IN  [i \in 1..Len(mine) |-> Row(mine[i].UD, mine[i].LD, mine[i].v)]

\* The site identifiers in ascending order, as groupby yields them.
RECURSIVE SortedSites(_)
SortedSites(ids) ==
    IF ids = {} THEN <<>>
    ELSE LET lo == CHOOSE x \in ids : \A y \in ids : x <= y
         IN  <<lo>> \o SortedSites(ids \ {lo})

\* Lines 559-581 for one site: the call in its try block, the all-NaN result
\* in the except block.
SiteResult(cache, site_df, lam, target_depths, vlow, vhigh) ==
    With(spline_one(cache, site_df, lam, target_depths, vlow, vhigh), LAMBDA r :
        IF r.out.raised # ""
        THEN [out |-> [NanResult(target_depths) EXCEPT !.path = "except"], cache |-> r.cache]
        ELSE [out |-> r.out, cache |-> r.cache])

\* The loop over the sites: `done` maps the sites processed so far to results.
RECURSIVE SiteLoop(_, _, _, _, _, _, _, _)
SiteLoop(cache, df, todo, done, lam, target_depths, vlow, vhigh) ==
    IF todo = <<>> THEN [results |-> done, cache |-> cache]
    ELSE With(SiteResult(cache, SiteRows(df, todo[1]), lam, target_depths, vlow, vhigh),
              LAMBDA r :
            SiteLoop(r.cache, df, Tail(todo),
                     [k \in (DOMAIN done) \cup {todo[1]} |->
                         IF k = todo[1] THEN r.out ELSE done[k]],
                     lam, target_depths, vlow, vhigh))

\* spline_multiple(df, var_name, lam, ...) for one variable that is a column.
spline_multiple(cache, df, lam, target_depths, vlow, vhigh) ==
    SiteLoop(cache, df, SortedSites({df[i].SID : i \in 1..Len(df)}), <<>>,
             lam, target_depths, vlow, vhigh)

\* df.columns of a many-site DataFrame whose value column is named `column`.
Columns(column) == {"SID", "UD", "LD", column}

\* The DataFrame read with the column v_name as the variable to fit
\* (s[var_name], lines 380-384 and 473): the value column, a depth column, or
\* the site identifiers as floats.
AsVariable(df, v_name, column) ==
    [i \in 1..Len(df) |->
        [df[i] EXCEPT !.v = IF v_name = column THEN df[i].v
                            ELSE IF v_name = "UD" THEN df[i].UD
                            ELSE IF v_name = "LD" THEN df[i].LD
                            ELSE Num(df[i].SID)]]

\* Lines 551-581 over the names of var_names: a name that is no column of df
\* is skipped, every column of df is fitted; `column` is the name of the
\* value column of df.
RECURSIVE VariableLoop(_, _, _, _, _, _, _, _, _)
VariableLoop(cache, df, column, var_names, results, lam, target_depths, vlow, vhigh) ==
    IF var_names = <<>> THEN [results |-> results, cache |-> cache]
    ELSE IF var_names[1] \notin Columns(column)
    THEN VariableLoop(cache, df, column, Tail(var_names), results,
                      lam, target_depths, vlow, vhigh)
    ELSE With(spline_multiple(cache, AsVariable(df, var_names[1], column), lam,
                              target_depths, vlow, vhigh), LAMBDA r :
            VariableLoop(r.cache, df, column, Tail(var_names),
                         [k \in (DOMAIN results) \cup {var_names[1]} |->
                             IF k = var_names[1] THEN r.results ELSE results[k]],
                         lam, target_depths, vlow, vhigh))

\* spline_multiple(df, var_name, lam, ...) for var_name a name
\* ([kind |-> "str", name |-> ...]) or a list ([kind |-> "list", names |-> ...]):
\* lines 544-589.  results[var_names[0]] raises KeyError when that name was
\* skipped.
spline_multiple_var_name(cache, df, column, var_name, lam, target_depths, vlow, vhigh) ==
    With(IF var_name.kind = "str" THEN <<var_name.name>> ELSE var_name.names,
         LAMBDA var_names :
    With(VariableLoop(cache, df, column, var_names, <<>>, lam, target_depths, vlow, vhigh),
         LAMBDA done :
        IF Len(var_names) = 1
        THEN (IF var_names[1] \in DOMAIN done.results
              THEN [raised |-> "", cache |-> done.cache, unwrapped |-> TRUE,
                    results |-> done.results[var_names[1]]]
              ELSE [raised |-> "KeyError", cache |-> done.cache])
        ELSE [raised |-> "", cache |-> done.cache, unwrapped |-> FALSE,
              results |-> done.results]))

-----------------------------------------------------------------------------
(* Horizon validation (validation.py) and HorizonSequence (spline.py).  A  *)
(* horizon is [upper, lower, props, keys]: its two depths (floats), the    *)
(* numeric properties it carries, a function from property names to        *)
(* floats, and the names of these properties in the order of the dict.     *)
(* Horizons come with the standard keys and float values, so               *)
(* _standardize_horizons and _normalize_horizons change nothing.           *)

MIN_HORIZONS == 2

\* DEPTH_CONSTRAINTS["min_depth_top"] and ["max_horizon_depth"]
min_depth_top == 0
max_horizon_depth == 400

\* Python's max(): an item replaces the running maximum when it is greater,
\* so a NaN in first place stays and a later NaN is skipped.
RECURSIVE PyMaxFrom(_, _)
PyMaxFrom(m, v) ==
    IF v = <<>> THEN m ELSE PyMaxFrom(IF RLt(m, v[1]) THEN v[1] ELSE m, Tail(v))

PyMax(v) == PyMaxFrom(v[1], Tail(v))

\* Lines 121-132: the depth checks that make one horizon invalid.
HorizonInvalid(hz) ==
    RLt(hz.upper, Num(min_depth_top)) \/ RLe(hz.lower, hz.upper)

\* Lines 121-147: the errors recorded for one horizon.
HorizonErrors(hz, strict) ==
    (IF RLt(hz.upper, Num(min_depth_top)) THEN <<"negative depth top">> ELSE <<>>)
        \o (IF RLe(hz.lower, hz.upper) THEN <<"depth inverted or equal">> ELSE <<>>)
        \o (IF RLt(Num(max_horizon_depth), hz.lower) /\ strict
            THEN <<"exceeds max depth">> ELSE <<>>)

RECURSIVE Concat(_)
Concat(seqs) == IF seqs = <<>> THEN <<>> ELSE seqs[1] \o Concat(Tail(seqs))

\* MAX_DEPTH and DEPTH_CONSTRAINTS["min_horizon_thickness"]
MAX_DEPTH == 200
min_horizon_thickness == 1

\* Lines 164-169: the warning for a property value, f"... is {prop_value}".
PropertyWarning(prop_value) ==
    IF isnan(prop_value) THEN <<"property is nan">>
    ELSE IF prop_value = Inf THEN <<"property is inf">>
    ELSE IF prop_value = RNeg(Inf) THEN <<"property is -inf">>
    ELSE <<>>

\* Lines 134-169: the warnings recorded for one horizon, each by its kind:
\* a thin horizon, a deep one when not strict, a property that is NaN or
\* infinite (the properties taken in the order of hz.items()).
HorizonWarnings(hz, strict) ==
    (IF RLt(RSub(hz.lower, hz.upper), Num(min_horizon_thickness))
     THEN <<"very thin">> ELSE <<>>)
        \o (IF RLt(Num(max_horizon_depth), hz.lower) /\ ~strict
            THEN <<"exceeds typical depth">> ELSE <<>>)
        \o Concat([j \in 1..Len(hz.keys) |-> PropertyWarning(hz.props[hz.keys[j]])])

\* Faulty variant: the horizons compared in the order given.
AsGiven(horizons, cpython) == horizons

\* sorted(horizons, key=lambda h: float(h["upper"])) is computed as CPython
\* sorts a list of fewer than 64 items, with "<" on the keys only, so that the
\* order it leaves horizons with a NaN upper in is the interpreter's: the
\* leading run is found first, and every later item is put into the sorted
\* part by binary search.  Without NaN this is the stable sort by upper.  The
\* leading run is found in one way by CPython up to 3.12 and in another from
\* 3.13 on; `cpython` says which interpreter runs the program.
CPythons == {"3.12", "3.13"}

\* The length of the leading run of a, r items of which are known.
RECURSIVE RunEnd(_, _, _)
RunEnd(a, r, descending) ==
    IF r = Len(a) THEN r
    ELSE IF RLt(a[r + 1].upper, a[r].upper) = descending THEN RunEnd(a, r + 1, descending)
    ELSE r

\* A strictly descending leading run is reversed in place.
Reversed(a) == [i \in 1..Len(a) |-> a[Len(a) + 1 - i]]

\* The number of items of a[1..r] that stay in front of pivot, searched
\* between l and r.
RECURSIVE BisectRight(_, _, _, _)
BisectRight(a, pivot, l, r) ==
    IF l >= r THEN l
    ELSE With(l + ((r - l) \div 2), LAMBDA p :
            IF RLt(pivot.upper, a[p + 1].upper) THEN BisectRight(a, pivot, l, p)
            ELSE BisectRight(a, pivot, p + 1, r))

\* a with its first `start` items sorted: the items behind them inserted.
RECURSIVE BinarySort(_, _)
BinarySort(a, start) ==
    IF start >= Len(a) THEN a
    ELSE With(BisectRight(a, a[start + 1], 0, start), LAMBDA l :
            BinarySort(SubSeq(a, 1, l) \o <<a[start + 1]>> \o SubSeq(a, l + 1, start)
                           \o SubSeq(a, start + 2, Len(a)),
                       start + 1))

\* count_run up to CPython 3.12: the leading run is not descending, or
\* strictly descending and then reversed.
CountRun312(a) ==
    With(RLt(a[2].upper, a[1].upper), LAMBDA descending :
    With(RunEnd(a, 2, descending), LAMBDA r :
        [a |-> (IF descending THEN Reversed(SubSeq(a, 1, r)) ELSE SubSeq(a, 1, r))
                  \o SubSeq(a, r + 1, Len(a)),
         n |-> r]))

\* REVERSE_LAST_NEQ: the last neq + 1 of the first n items, all equal, are
\* reversed in place.
ReverseLastNeq(a, n, neq) ==
    IF neq = 0 THEN a
    ELSE SubSeq(a, 1, n - neq - 1) \o Reversed(SubSeq(a, n - neq, n))
            \o SubSeq(a, n + 1, Len(a))

\* The descending run of count_run from CPython 3.13 on: it goes on while the
\* next item is smaller or equal, runs of equal items reversed on the way.
RECURSIVE DescendingRun(_, _, _)
DescendingRun(a, n, neq) ==
    IF n = Len(a) THEN [a |-> ReverseLastNeq(a, n, neq), n |-> n]
    ELSE IF RLt(a[n + 1].upper, a[n].upper)
    THEN DescendingRun(ReverseLastNeq(a, n, neq), n + 1, 0)
    ELSE IF RLt(a[n].upper, a[n + 1].upper)
    THEN [a |-> ReverseLastNeq(a, n, neq), n |-> n]
    ELSE DescendingRun(a, n + 1, neq + 1)

\* count_run from CPython 3.13 on: the ascending run first; when a smaller
\* item ends it and its first item is not less than its last, it is taken as
\* a run of equal items that starts a descending run, which is reversed as a
\* whole and then extended by the items that ascend behind it.
CountRun313(a) ==
    With(RunEnd(a, 1, FALSE), LAMBDA n :
        IF n = Len(a) \/ (n > 1 /\ RLt(a[1].upper, a[n].upper)) THEN [a |-> a, n |-> n]
        ELSE With(DescendingRun(IF n > 1
                                THEN Reversed(SubSeq(a, 1, n)) \o SubSeq(a, n + 1, Len(a))
                                ELSE a,
                                n + 1, 0), LAMBDA run :
             With(Reversed(SubSeq(run.a, 1, run.n)) \o SubSeq(run.a, run.n + 1, Len(a)),
                  LAMBDA b : [a |-> b, n |-> RunEnd(b, run.n, FALSE)])))

\* Line 173: sorted_hz.
SortedByUpper(horizons, cpython) ==
    IF Len(horizons) < 2 THEN horizons
    ELSE With(IF cpython = "3.12" THEN CountRun312(horizons) ELSE CountRun313(horizons),
              LAMBDA run : BinarySort(run.a, run.n))

\* Lines 175-193: a warning for every pair of neighbours of sorted_hz with a
\* gap or an overlap between them.
ContinuityWarnings(sorted_hz) ==
    Concat([i \in 1..(Len(sorted_hz) - 1) |->
              With(RSub(sorted_hz[i + 1].upper, sorted_hz[i].lower), LAMBDA gap :
                  (IF RLt(Zero, gap) THEN <<"Gap detected">> ELSE <<>>)
                      \o (IF RLt(gap, Zero) THEN <<"Overlap detected">> ELSE <<>>))])

\* validate_horizon_sequence(horizons, strict) run by the interpreter
\* `cpython`: is_valid, the errors and the warnings.  int(max_depth) raises
\* ValueError for NaN and OverflowError for an infinite depth.
validate_horizon_sequence(horizons, strict, cpython) ==
    IF horizons = <<>>
    THEN [raised |-> "", is_valid |-> FALSE, errors |-> <<"No horizons provided">>,
          warnings |-> <<>>]
    ELSE IF Len(horizons) < MIN_HORIZONS
    THEN [raised |-> "", is_valid |-> FALSE, errors |-> <<"Insufficient horizons">>,
          warnings |-> <<>>]
    ELSE IF isnan(PyMax([i \in 1..Len(horizons) |-> horizons[i].lower]))
    THEN [raised |-> "ValueError"]
    ELSE IF IsInf(PyMax([i \in 1..Len(horizons) |-> horizons[i].lower]))
    THEN [raised |-> "OverflowError"]
    ELSE With(\A i \in 1..Len(horizons) : ~HorizonInvalid(horizons[i]), LAMBDA is_valid :
            [raised |-> "",
             is_valid |-> is_valid,
             errors |-> Concat([i \in 1..Len(horizons) |->
                                  HorizonErrors(horizons[i], strict)]),
             warnings |->
                 Concat([i \in 1..Len(horizons) |-> HorizonWarnings(horizons[i], strict)])
                   \o (IF is_valid THEN ContinuityWarnings(SortedByUpper(horizons, cpython))
                       ELSE <<>>)
                   \o (IF IntOf(PyMax([i \in 1..Len(horizons) |-> horizons[i].lower]))
                            > MAX_DEPTH
                       THEN <<"Maximum depth exceeds typical">> ELSE <<>>)])

\* The property names of the modelled horizons, in sorted order.
PropertyNames == <<"clay", "sand", "silt">>

\* _extract_property_names: the sorted names of the properties of any horizon.
Properties(horizons) ==
    SelectSeq(PropertyNames, LAMBDA p : \E i \in 1..Len(horizons) : p \in DOMAIN horizons[i].props)

\* An interpreter, where the sorted order does not enter what is read.
SomeCPython == CHOOSE cpython \in CPythons : TRUE

\* HorizonSequence(horizons, strict): the object, or the ValueError of an
\* invalid sequence.  The warnings of the validation, the one part of it the
\* sorted order enters, are logged only.
HorizonSequence(horizons, strict) ==
    With(validate_horizon_sequence(horizons, strict, SomeCPython), LAMBDA validation :
        IF validation.raised # "" THEN [raised |-> validation.raised]
        ELSE IF ~validation.is_valid THEN [raised |-> "ValueError"]
        ELSE [raised |-> "", horizons |-> horizons, properties |-> Properties(horizons)])

\* to_dataframe(), and of it the columns UD, LD and property_name: a horizon
\* without the property has NaN in its row.
PropertyFrame(horizons, property_name) ==
    [i \in 1..Len(horizons) |->
        Row(horizons[i].upper, horizons[i].lower,
            IF property_name \in DOMAIN horizons[i].props
            THEN horizons[i].props[property_name] ELSE NaN)]

-----------------------------------------------------------------------------
(* Record shaping: mpspline_one (spline.py).                               *)

\* str.rstrip(chars) and str.lstrip(chars)
RECURSIVE RStrip(_, _)
RStrip(str, chars) ==
    IF str # <<>> /\ str[Len(str)] \in chars THEN RStrip(SubSeq(str, 1, Len(str) - 1), chars)
    ELSE str

RECURSIVE LStrip(_, _)
LStrip(str, chars) ==
    IF str # <<>> /\ str[1] \in chars THEN LStrip(Tail(str), chars) ELSE str

\* str.split(sep) for a one-character sep
RECURSIVE SplitFrom(_, _, _)
SplitFrom(str, sep, part) ==
    IF str = <<>> THEN <<part>>
    ELSE IF str[1] = sep THEN <<part>> \o SplitFrom(Tail(str), sep, <<>>)
    ELSE SplitFrom(Tail(str), sep, Append(part, str[1]))

Split(str, sep) == SplitFrom(str, sep, <<>>)

DigitValue(c) == CHOOSE d \in 0..9 : DigitChar(d) = c

\* int(str) of an optional sign followed by digits
RECURSIVE ParseDigits(_, _)
ParseDigits(str, acc) ==
    IF str = <<>> THEN acc ELSE ParseDigits(Tail(str), 10 * acc + DigitValue(str[1]))

ParseInt(str) == IF str[1] = "-" THEN -ParseDigits(Tail(str), 0) ELSE ParseDigits(str, 0)

\* Faulty variant: zeros are stripped from both ends of the part.
ParseBoundStripBoth(part) ==
    IF RStrip(LStrip(part, {"0"}), {"0"}) = <<>> THEN ParseInt(<<"0">>)
    ELSE ParseInt(RStrip(LStrip(part, {"0"}), {"0"}))

\* int(part.lstrip("0") or "0")
ParseBound(part) ==
    IF LStrip(part, {"0"}) = <<>> THEN ParseInt(<<"0">>) ELSE ParseInt(LStrip(part, {"0"}))

\* depth_name.rstrip("_cm").split("_")
NameParts(depth_name) == Split(RStrip(depth_name, {"_", "c", "m"}), "_")

\* str(n) of an int
IntStr(n) == IF n < 0 THEN <<"-">> \o Digits(-n) ELSE Digits(n)

\* The characters of a property name and of a key the program names.
Chars(name) ==
    CASE name = "clay" -> <<"c", "l", "a", "y">>
      [] name = "sand" -> <<"s", "a", "n", "d">>
      [] name = "silt" -> <<"s", "i", "l", "t">>
      [] name = "horizons" -> <<"h", "o", "r", "i", "z", "o", "n", "s">>
      [] name = "cokey" -> <<"c", "o", "k", "e", "y">>
      [] name = "var_name" -> <<"v", "a", "r", "_", "n", "a", "m", "e">>
      [] name = "upper" -> <<"u", "p", "p", "e", "r">>
      [] name = "lower" -> <<"l", "o", "w", "e", "r">>
      [] name = "value" -> <<"v", "a", "l", "u", "e">>
      [] name = "depth" -> <<"d", "e", "p", "t", "h">>

\* A Python object that is no list is [pytype |-> the name of its type]; a
\* dict has with it `items`, the sequence of its <<key, value>> items in the
\* order of insertion, every key a string spelled in characters.
Dict(items) == [pytype |-> "dict", items |-> items]

\* key in d, and d[key]
DictHas(d, key) == \E i \in 1..Len(d.items) : d.items[i][1] = key

DictGet(d, key) == d.items[CHOOSE i \in 1..Len(d.items) : d.items[i][1] = key][2]

\* d[key] = value: the item of a key the dict has is replaced where it is,
\* the item of a new key comes last.
DictSet(d, key, value) ==
    IF DictHas(d, key)
    THEN [d EXCEPT !.items = [i \in 1..Len(d.items) |->
                                 IF d.items[i][1] = key THEN <<key, value>> ELSE d.items[i]]]
    ELSE [d EXCEPT !.items = Append(d.items, <<key, value>>)]

\* The assignments d[key] = value for the items of `new`, one after the other.
RECURSIVE DictSetAll(_, _)
DictSetAll(d, new) ==
    IF new = <<>> THEN d ELSE DictSetAll(DictSet(d, new[1][1], new[1][2]), Tail(new))

\* Line 286: the items of component_data other than 'horizons'.
Metadata(component_data) ==
    Dict(SelectSeq(component_data.items, LAMBDA item : item[1] # Chars("horizons")))

\* zip(a, b) stops at the shorter one.
ZipLen(a, b) == IF Len(a) < Len(b) THEN Len(a) ELSE Len(b)

\* Lines 338-369: the records one property adds in long form, or the
\* exception (spline_one returns no est_icm: KeyError in mode icm).
LongRecords(metadata, property_name, out, mode) ==
    IF mode = "dcm"
    THEN [raised |-> "",
          records |-> [j \in 1..ZipLen(out.names_dcm, out.est_dcm) |->
                          DictSetAll(metadata,
                              << <<Chars("var_name"), property_name>>,
                                 <<Chars("upper"), ParseBound(NameParts(out.names_dcm[j])[1])>>,
                                 <<Chars("lower"), ParseBound(NameParts(out.names_dcm[j])[2])>>,
                                 <<Chars("value"), out.est_dcm[j]>> >>)]]
    ELSE IF mode = "1cm"
    THEN [raised |-> "",
          records |-> [d \in 1..Len(out.est_1cm) |->
                          DictSetAll(metadata,
                              << <<Chars("var_name"), property_name>>,
                                 <<Chars("depth"), d - 1>>,
                                 <<Chars("value"), out.est_1cm[d]>> >>)]]
    ELSE IF mode = "icm" THEN [raised |-> "KeyError"]
    ELSE [raised |-> "", records |-> <<>>]

\* Lines 306-335: the columns one property adds in wide form, or the exception.
WideColumns(property_name, out, mode) ==
    IF mode = "dcm"
    THEN [raised |-> "",
          columns |-> [j \in 1..ZipLen(out.names_dcm, out.est_dcm) |->
                          <<Chars(property_name) \o <<"_">>
                              \o IntStr(ParseBound(NameParts(out.names_dcm[j])[1])) \o <<"_">>
                              \o IntStr(ParseBound(NameParts(out.names_dcm[j])[2])),
                            out.est_dcm[j]>>]]
    ELSE IF mode = "1cm"
    THEN [raised |-> "",
          columns |-> [d \in 1..Len(out.est_1cm) |->
                          <<Chars(property_name) \o <<"_">> \o IntStr(d - 1) \o <<"c", "m">>,
                            out.est_1cm[d]>>]]
    ELSE IF mode = "icm" THEN [raised |-> "KeyError"]
    ELSE [raised |-> "", columns |-> <<>>]

\* Lines 266-272: var_name is None ([kind |-> "none"]), a name
\* ([kind |-> "str", name |-> ...]) or a list ([kind |-> "list", names |-> ...]).
PropertiesToProcess(var_name, properties) ==
    IF var_name.kind = "none" THEN properties
    ELSE IF var_name.kind = "str"
    THEN (IF \E i \in 1..Len(properties) : properties[i] = var_name.name
          THEN <<var_name.name>> ELSE <<>>)
    ELSE SelectSeq(var_name.names, LAMBDA p : \E i \in 1..Len(properties) : properties[i] = p)

\* Lines 306-369: what the result of one property adds to the output.
Shaped(metadata, property_name, out, output_type, mode) ==
    IF out.raised # "" THEN [raised |-> out.raised]
    ELSE IF output_type = "wide"
    THEN With(WideColumns(property_name, out, mode), LAMBDA w :
            IF w.raised # "" THEN [raised |-> w.raised]
            ELSE [raised |-> "", records |-> <<>>, columns |-> w.columns])
    ELSE With(LongRecords(metadata, property_name, out, mode), LAMBDA l :
            IF l.raised # "" THEN [raised |-> l.raised]
            ELSE [raised |-> "", records |-> l.records, columns |-> <<>>])

\* Lines 294-378: the loop over the properties.  args holds the keyword
\* arguments of the call; an exception is raised again when strict, and
\* otherwise ends the property it came from.
RECURSIVE PropertyLoop(_, _, _, _, _, _, _)
PropertyLoop(cache, horizons, metadata, todo, long_results, wide_result, args) ==
    IF todo = <<>>
    THEN [raised |-> "", cache |-> cache,
          long_results |-> long_results, wide_result |-> wide_result]
    ELSE With(spline_one(cache, PropertyFrame(horizons, todo[1]), args.lam,
                         args.target_depths, args.vlow, args.vhigh), LAMBDA r :
         With(Shaped(metadata, todo[1], r.out, args.output_type, args.mode), LAMBDA shaped :
            IF shaped.raised # ""
            THEN (IF args.strict THEN [raised |-> shaped.raised, cache |-> r.cache]
                  ELSE PropertyLoop(r.cache, horizons, metadata, Tail(todo),
                                    long_results, wide_result, args))
            ELSE PropertyLoop(r.cache, horizons, metadata, Tail(todo),
                              long_results \o shaped.records,
                              DictSetAll(wide_result, shaped.columns), args)))

\* Lines 255-382 once component_data has a non-empty 'horizons'.  Only the
\* ValueError of HorizonSequence is caught; the wide form is the copy of the
\* metadata with the columns assigned into it.
Harmonize(cache, component_data, args) ==
    With(HorizonSequence(DictGet(component_data, Chars("horizons")), args.strict),
         LAMBDA hz_seq :
        IF hz_seq.raised = "ValueError"
        THEN (IF args.strict THEN [raised |-> "ValueError", cache |-> cache]
              ELSE [raised |-> "", cache |-> cache,
                    ret |-> IF args.output_type = "long" THEN <<>> ELSE component_data])
        ELSE IF hz_seq.raised # "" THEN [raised |-> hz_seq.raised, cache |-> cache]
        ELSE With(PropertyLoop(cache, hz_seq.horizons, Metadata(component_data),
                               PropertiesToProcess(args.var_name, hz_seq.properties),
                               <<>>, Metadata(component_data), args), LAMBDA done :
                IF done.raised # "" THEN [raised |-> done.raised, cache |-> done.cache]
                ELSE [raised |-> "", cache |-> done.cache,
                      ret |-> IF args.output_type = "long" THEN done.long_results
                              ELSE done.wide_result]))

\* Faulty variant: without strict an empty horizons list is skipped like an
\* invalid sequence instead of being rejected.
LenientOnEmpty(cache, component_data, args) ==
    IF component_data.pytype # "dict" THEN [raised |-> "TypeError", cache |-> cache]
    ELSE IF ~DictHas(component_data, Chars("horizons"))
    THEN [raised |-> "ValueError", cache |-> cache]
    ELSE IF DictGet(component_data, Chars("horizons")) = <<>>
    THEN (IF args.strict THEN [raised |-> "ValueError", cache |-> cache]
          ELSE [raised |-> "", cache |-> cache,
                ret |-> IF args.output_type = "long" THEN <<>> ELSE component_data])
    ELSE Harmonize(cache, component_data, args)

\* mpspline_one(component_data, **args) on cache state `cache`: what it
\* returns (the list of the record dicts of the long form; for the wide form
\* one dict, or the copy of component_data) or raises, and the cache
\* afterwards.
mpspline_one(cache, component_data, args) ==
    IF component_data.pytype # "dict" THEN [raised |-> "TypeError", cache |-> cache]
    ELSE IF ~DictHas(component_data, Chars("horizons"))
    THEN [raised |-> "ValueError", cache |-> cache]
    ELSE IF DictGet(component_data, Chars("horizons")) = <<>>
    THEN [raised |-> "ValueError", cache |-> cache]
    ELSE Harmonize(cache, component_data, args)

\* The types, other than dict, of the modelled components that have a get
\* method: the mappings that are no dict.
MappingTypes == {"UserDict", "mappingproxy"}

\* component.get('cokey', ...) in the log line of an exception handler: a
\* component that is no mapping has no get, AttributeError.
HasNoGet(component) == component.pytype \notin {"dict"} \cup MappingTypes

\* _process_sequential: the loop over the components.  Without strict a
\* failed component is logged and skipped; the log line itself raises for a
\* component without a get method.
RECURSIVE _process_sequential(_, _, _, _)
_process_sequential(cache, components, harmonized, args) ==
    IF components = <<>> THEN [raised |-> "", cache |-> cache, harmonized |-> harmonized]
    ELSE With(mpspline_one(cache, components[1], args), LAMBDA r :
            IF r.raised # ""
            THEN (IF args.strict THEN [raised |-> r.raised, cache |-> r.cache]
                  ELSE IF HasNoGet(components[1])
                  THEN [raised |-> "AttributeError", cache |-> r.cache]
                  ELSE _process_sequential(r.cache, Tail(components), harmonized, args))
            ELSE _process_sequential(r.cache, Tail(components), Append(harmonized, r.ret), args))

\* The keys of the dicts, each where it comes first.
RECURSIVE KeysInOrder(_, _)
KeysInOrder(dicts, seen) ==
    IF dicts = <<>> THEN seen
    ELSE KeysInOrder(Tail(dicts),
                     seen \o SelectSeq([i \in 1..Len(dicts[1].items) |-> dicts[1].items[i][1]],
                                       LAMBDA key : \A j \in 1..Len(seen) : seen[j] # key))

\* pd.DataFrame(dicts) for a list of dicts, as its records: one row per dict
\* over the keys of all of them, NaN where the dict has no item.
DataFrame(dicts) ==
    With(KeysInOrder(dicts, <<>>), LAMBDA columns :
        [i \in 1..Len(dicts) |->
            Dict([c \in 1..Len(columns) |->
                    <<columns[c],
                      IF DictHas(dicts[i], columns[c]) THEN DictGet(dicts[i], columns[c])
                      ELSE NaN>>])])

\* mpspline, lines 479-490: the rows of the DataFrame built from the list of
\* the components' results.
DataFrameRows(harmonized_batches, output_type) ==
    IF harmonized_batches = <<>> THEN <<>>
    ELSE IF output_type = "long" THEN DataFrame(Concat(harmonized_batches))
    ELSE DataFrame(harmonized_batches)

\* mpspline(obj, parallel=False, **args) for a list obj: the exception, or the
\* rows of the DataFrame it returns (the records of all components in long
\* form, one dict per component in wide form) with the list they come from.
mpspline(cache, obj, args) ==
    With(_process_sequential(cache, obj, <<>>, args), LAMBDA batch :
        IF batch.raised # "" THEN [raised |-> batch.raised, cache |-> batch.cache]
        ELSE [raised |-> "", cache |-> batch.cache, harmonized |-> batch.harmonized,
              rows |-> DataFrameRows(batch.harmonized, args.output_type)])

\* mpspline(obj, **args) for an obj that is no list: lines 427-444.
mpspline_object(cache, obj, args) ==
    IF obj.pytype = "dict" THEN mpspline_one(cache, obj, args)
    ELSE [raised |-> "TypeError", cache |-> cache]

\* _harmonize_worker(component, **args) in a worker process whose copy of the
\* cache is `cache`: the result, None ([none |-> TRUE]) or the exception.
_harmonize_worker(cache, component, args) ==
    With(mpspline_one(cache, component, args), LAMBDA r :
        IF r.raised # ""
        THEN (IF ~args.strict
              THEN (IF HasNoGet(component) THEN [raised |-> "AttributeError"]
                    ELSE [raised |-> "", none |-> TRUE])
              ELSE [raised |-> r.raised])
        ELSE [raised |-> "", none |-> FALSE, ret |-> r.ret])

\* pool.imap_unordered pickles every component to send it to a worker.  A
\* mappingproxy cannot be pickled: the TypeError of the pickler is what the
\* iteration of line 607 yields for that component, raised in the parent.
Picklable(component) == component.pytype # "mappingproxy"

\* Lines 607-609: one result taken from the pool is appended unless it is None.
Collect(harmonized, worker_result) ==
    IF worker_result.none THEN harmonized ELSE Append(harmonized, worker_result.ret)

-----------------------------------------------------------------------------
(* The program as a state machine.  The state is the process-wide matrix   *)
(* cache, the call in progress and what the last call returned.  A call is *)
(* made in two steps: it is invoked with its arguments, then it runs to    *)
(* completion (the core is synchronous and single-threaded).               *)

VARIABLES _MATRIX_CACHE, call, result

vars == <<_MATRIX_CACHE, call, result>>

Pending == [state |-> "pending"]

\* ---- inputs ----

\* Depths of the generated frames lie on the grid 0..MaxDepth (cm).
MaxDepth == 3

\* Measured values of the generated frames are 1..MaxValue, or missing.
MaxValue == 2

DefaultLam == Frac(1, 10)

Lams == {DefaultLam, Frac(1, 4)}

GridDepths == {Num(d) : d \in 0..MaxDepth}

Values == {Num(v) : v \in 1..MaxValue} \cup {NaN}

\* Every row on the grid: inverted, empty and NaN-valued ones included.
GridRows == {Row(ud, ld, v) : ud \in GridDepths, ld \in GridDepths, v \in Values}

\* Frames the grid does not hold: no row, one row, three rows, missing or
\* negative boundaries, a value above the default vhigh, scenarios A and B
\* of the specification, and an infinite value or lower boundary.
SpecialFrames ==
    { <<>>,
      <<Row(Num(0), Num(2), Num(1))>>,
      <<Row(Num(0), Num(20), Num(25))>>,
      <<Row(Num(0), Num(20), Frac(49, 2)), Row(Num(20), Num(50), Frac(176, 5))>>,
      <<Row(Num(0), Num(1), Num(3)), Row(Num(1), Num(3), Num(5)), Row(Num(3), Num(4), Num(4))>>,
      <<Row(Num(0), Num(1), Num(2)), Row(Num(1), Num(2), NaN), Row(Num(2), Num(4), Num(1))>>,
      <<Row(Num(2), Num(4), Num(1)), Row(Num(1), Num(2), NaN), Row(Num(0), Num(1), Num(2))>>,
      <<Row(Num(0), Num(1), Num(2)), Row(Num(0), Num(1), Num(2)), Row(Num(2), Num(4), Num(1))>>,
      <<Row(NaN, Num(2), Num(1)), Row(Num(2), NaN, Num(2))>>,
      <<Row(Num(0), NaN, Num(1)), Row(NaN, Num(3), Num(2))>>,
      <<Row(Num(-2), Num(0), Num(9)), Row(Num(0), Num(2), Num(1)), Row(Num(2), Num(3), Num(2))>>,
      <<Row(Num(0), Num(2), Num(2000)), Row(Num(2), Num(2), Num(1))>>,
      <<Row(Num(0), Num(2), Num(2000)), Row(Num(2), Num(3), Num(1))>>,
      <<Row(Num(0), Num(2), Num(1)), Row(Num(2), Num(3), Inf)>>,
      <<Row(Num(0), Num(2), Num(1)), Row(Num(2), Inf, Num(2))>>,
      <<Row(Num(0), Inf, Num(1)), Row(Num(2), Num(2), Num(1))>> }

Frames == {<<r1, r2>> : r1 \in GridRows, r2 \in GridRows} \cup SpecialFrames

\* Target intervals around the grid: one window is empty, the last one lies
\* beyond every grid profile.
GridTargets == <<<<0, 1>>, <<1, MaxDepth>>, <<2, 2>>, <<MaxDepth, MaxDepth + 2>>>>

\* Scenario D of the specification.
ScenarioDTargets == <<<<0, 10>>, <<10, 30>>, <<30, 50>>>>

DefaultClip == <<Zero, Num(1000)>>

\* A <<vlow, vhigh>> narrower than the measured values.
NarrowClip == <<Frac(3, 2), Frac(7, 4)>>

\* <<target_depths, <<vlow, vhigh>>>> of the modelled calls: the defaults,
\* scenario D, the grid windows with both ranges, and no window at all.
CallShapes ==
    { <<GLOBALSM_DEPTHS, DefaultClip>>, <<ScenarioDTargets, DefaultClip>>,
      <<GridTargets, DefaultClip>>, <<GridTargets, NarrowClip>> }

SplineOneCall(df, shape) ==
    [op |-> "spline_one", df |-> df, lam |-> DefaultLam, target_depths |-> shape[1],
     vlow |-> shape[2][1], vhigh |-> shape[2][2]]

SplineOneCalls ==
    {SplineOneCall(df, shape) : df \in Frames, shape \in CallShapes}
        \cup {SplineOneCall(df, <<<<>>, DefaultClip>>) : df \in SpecialFrames}

\* Direct calls of the estimator: any two or three intervals on the grid
\* (overlapping, empty and inverted ones too), one value per interval or, for
\* two intervals, one value too few.
GridPatterns ==
    {<<<<t1, t2>>, <<b1, b2>>>> : t1 \in GridDepths, t2 \in GridDepths,
                                  b1 \in GridDepths, b2 \in GridDepths}

\* Any three intervals on the grid, the first one starting at the surface.
GridPatterns3 ==
    {<<<<Zero, t2, t3>>, <<b1, b2, b3>>>> : t2 \in GridDepths, t3 \in GridDepths,
                                            b1 \in GridDepths, b2 \in GridDepths, b3 \in GridDepths}

EstimateCall(p, v, lam) ==
    [op |-> "_estimate_spline_parameters", depths_top |-> p[1], depths_bottom |-> p[2],
     values |-> v, lam |-> lam]

\* Patterns with a boundary that is not finite.
NonFinitePatterns ==
    { <<<<Num(0), Num(2)>>, <<Num(2), Inf>>>>,
      <<<<Num(0), Num(2)>>, <<Num(2), NaN>>>>,
      <<<<Num(0), Inf>>, <<Num(2), Num(3)>>>> }

\* Calls of the estimator with a value, a lambda or a boundary not finite.
NonFiniteCalls ==
    {EstimateCall(<<<<Num(0), Num(2)>>, <<Num(2), Num(3)>>>>, v, DefaultLam) :
        v \in {<<Num(1), Inf>>, <<Num(1), NaN>>, <<RNeg(Inf), Num(1)>>}}
      \cup {EstimateCall(<<<<Num(0), Num(2)>>, <<Num(2), Num(3)>>>>, <<Num(1), Num(2)>>, lam) :
                lam \in {NaN, Inf}}
      \cup {EstimateCall(p, <<Num(1), Num(2)>>, DefaultLam) : p \in NonFinitePatterns}

EstimateCalls ==
    {EstimateCall(p, v, lam) :
        p \in GridPatterns, v \in {<<Num(1), Num(MaxValue)>>, <<Num(1)>>}, lam \in Lams}
      \cup {EstimateCall(p, <<Num(1), Num(MaxValue), Num(1)>>, lam) :
                p \in GridPatterns3, lam \in Lams}
      \cup NonFiniteCalls

\* Direct calls of the fit-quality estimator: observed vectors of one to three
\* grid values (some missing), and longer ones whose quartiles coincide
\* although the values differ; the smoothed vector equal to the observed one,
\* all zero, or missing at the first knot.
ObservedVectors ==
    {<<v1>> : v1 \in Values}
        \cup {<<v1, v2>> : v1 \in Values, v2 \in Values}
        \cup {<<v1, v2, v3>> : v1 \in Values, v2 \in Values, v3 \in Values}
        \cup { <<Num(1), Num(1), Num(1), Num(1), Num(MaxValue)>>,
               <<Num(MaxValue), Num(1), Num(1), Num(1), Num(1)>>,
               <<Num(1), Num(1), Num(MaxValue), Num(MaxValue), Num(MaxValue + 1)>> }

RmseCall(values, fitted) ==
    [op |-> "_calculate_rmse", values |-> values, fitted |-> fitted]

RmseCalls ==
    {RmseCall(v, v) : v \in ObservedVectors}
        \cup {RmseCall(v, Full(Len(v), Zero)) : v \in ObservedVectors}
        \cup {RmseCall(v, [i \in 1..Len(v) |-> IF i = 1 THEN NaN ELSE v[i]]) :
                  v \in ObservedVectors}

\* Direct calls of the prediction engine, on the parameters the estimator
\* gives for cleaned profiles: two or three intervals on the grid in
\* ascending order, each of positive thickness, none overlapping, with and
\* without gaps and a first interval starting below the surface; two
\* profiles with boundaries between the unit depths; and one that starts
\* below the surface and has a gap.
CleanPatterns ==
    {p \in GridPatterns :
        RLt(p[1][1], p[2][1]) /\ RLe(p[2][1], p[1][2]) /\ RLt(p[1][2], p[2][2])}
      \cup {p \in {<<<<t1, t2, t3>>, <<b1, b2, b3>>>> :
                      t1 \in GridDepths, t2 \in GridDepths, t3 \in GridDepths,
                      b1 \in GridDepths, b2 \in GridDepths, b3 \in GridDepths} :
                /\ RLt(p[1][1], p[2][1]) /\ RLe(p[2][1], p[1][2])
                /\ RLt(p[1][2], p[2][2]) /\ RLe(p[2][2], p[1][3])
                /\ RLt(p[1][3], p[2][3])}
      \cup { <<<<Zero, Frac(3, 2)>>, <<Frac(3, 2), Num(3)>>>>,
             <<<<Frac(1, 2), Num(2)>>, <<Frac(3, 2), Frac(5, 2)>>>>,
             <<<<Num(1), Num(3)>>, <<Num(2), Num(4)>>>> }

\* <<vlow, vhigh>> that no estimate of the grid profiles reaches.
WideClip == <<Num(-1000), Num(1000)>>

\* The grid windows and one over the whole grid.
PredictTargets == GridTargets \o <<<<0, MaxDepth>>>>

PredictCall(params, max_depth, clip) ==
    [op |-> "_fit_spline_predictions", params |-> params, max_depth |-> max_depth,
     target_depths |-> PredictTargets, vlow |-> clip[1], vhigh |-> clip[2]]

PredictCalls ==
    {PredictCall(_estimate_spline_parameters(EmptyCache, p[1], p[2],
                     [i \in 1..Len(p[1]) |-> IF i = 2 THEN Num(MaxValue) ELSE Num(1)],
                     DefaultLam).params,
                 max_depth, clip) :
        p \in CleanPatterns, max_depth \in 0..(MaxDepth + 2),
        clip \in {WideClip, DefaultClip, NarrowClip}}

\* ---- inputs of the program runs (a cache shared by a series of calls) ----

\* Two contiguous horizons; the same boundaries with other values; a gap; a
\* frame whose rows all go in cleaning; a single horizon.
FrameA == <<Row(Num(0), Num(2), Num(1)), Row(Num(2), Num(3), Num(2))>>
FrameA2 == <<Row(Num(0), Num(2), Num(2)), Row(Num(2), Num(3), Num(1))>>
FrameGap == <<Row(Num(0), Num(1), Num(1)), Row(Num(2), Num(3), Num(2))>>
FrameNoRows == <<Row(Num(0), NaN, Num(1)), Row(NaN, Num(3), Num(2))>>
FrameOneRow == <<Row(Num(0), Num(2), Num(1))>>

ProgFrames == {FrameA, FrameA2, FrameGap, FrameNoRows, FrameOneRow}

UD(df) == [i \in 1..Len(df) |-> df[i].UD]
LD(df) == [i \in 1..Len(df) |-> df[i].LD]

GetCall(depths_top, depths_bottom, lam) ==
    [op |-> "_get_spline_matrices", depths_top |-> depths_top,
     depths_bottom |-> depths_bottom, lam |-> lam]

\* Direct calls of the builder: one pattern under both lambdas, and the
\* empty pattern, for which the build raises.
GetCalls == {GetCall(UD(FrameA), LD(FrameA), lam) : lam \in Lams}
                \cup {GetCall(<<>>, <<>>, DefaultLam)}

\* The nan objects a caller holds.
NanObjects == {NanObject(1), NanObject(2)}

\* Direct calls of the builder with lam a nan: one the caller holds, passed
\* again in a later call, or one made for the call.
NanCalls == {GetCall(UD(FrameA), LD(FrameA), lam) : lam \in NanObjects \cup {NaN}}

\* The rows of a frame as rows of site `sid` of a many-site DataFrame.
SiteOf(sid, df) ==
    [i \in 1..Len(df) |-> [SID |-> sid, UD |-> df[i].UD, LD |-> df[i].LD, v |-> df[i].v]]

\* Many-site DataFrames: with and without a site whose fit raises.
Batches ==
    { SiteOf(1, FrameA) \o SiteOf(2, FrameNoRows) \o SiteOf(3, FrameGap),
      SiteOf(1, FrameA) \o SiteOf(3, FrameGap),
      SiteOf(2, FrameNoRows) \o SiteOf(1, FrameA2),
      SiteOf(1, FrameA2) }

\* A horizon dict whose property keys were inserted in the order `keys`.
HorizonInOrder(upper, lower, props, keys) ==
    [upper |-> upper, lower |-> lower, props |-> props, keys |-> keys]

\* A horizon dict whose property keys were inserted in the order of their names.
Horizon(upper, lower, props) ==
    HorizonInOrder(upper, lower, props, SelectSeq(PropertyNames, LAMBDA p : p \in DOMAIN props))

\* Components: the frames as horizons carrying clay; horizons that fail
\* validation; and horizons with missing depths, valid, that leave clay no
\* interval after cleaning while sand is fitted.
ClayHorizons(df) == [i \in 1..Len(df) |-> Horizon(df[i].UD, df[i].LD, [clay |-> df[i].v])]

\* The component dict {'cokey': cokey, 'horizons': horizons}.
Component(cokey, horizons) ==
    Dict(<< <<Chars("cokey"), cokey>>, <<Chars("horizons"), horizons>> >>)

CompA == Component(1, ClayHorizons(FrameA))
CompGap == Component(2, ClayHorizons(FrameGap))
CompInverted ==
    Component(3, <<Horizon(Num(0), Num(2), [clay |-> Num(1)]),
                   Horizon(Num(3), Num(2), [clay |-> Num(2)])>>)
CompHalf ==
    Component(4, <<Horizon(Num(0), Num(2), [clay |-> NaN, sand |-> Num(1)]),
                   Horizon(Num(2), Num(3), [clay |-> NaN, sand |-> Num(2)]),
                   Horizon(Num(0), NaN, [clay |-> Num(1), sand |-> NaN]),
                   Horizon(NaN, Num(3), [clay |-> Num(2), sand |-> NaN])>>)
CompNoHorizons == Component(5, <<>>)

\* A component that is a list, one that is a mapping but no dict
\* (collections.UserDict), and one whose deepest horizon has no end.
CompNotDict == [pytype |-> "list"]
CompUserDict == [pytype |-> "UserDict", items |-> Component(12, ClayHorizons(FrameA)).items]

\* A mapping that is no dict and that pickle refuses (types.MappingProxyType).
CompProxy == [pytype |-> "mappingproxy", items |-> Component(13, ClayHorizons(FrameA)).items]
CompInfinite ==
    Component(9, <<Horizon(Num(0), Num(2), [clay |-> Num(1)]),
                   Horizon(Num(2), Inf, [clay |-> Num(2)])>>)

\* A component with metadata under keys that columns of the wide form have:
\* the first and the second interval of clay in mode dcm, two depths of clay
\* in mode 1cm, and a column of sand, which its horizons do not carry.
CompColumn ==
    Dict(<< <<Chars("cokey"), 11>>,
            <<<<"c", "l", "a", "y", "_", "0", "_", "1">>, Num(99)>>,
            <<<<"c", "l", "a", "y", "_", "0", "c", "m">>, Num(98)>>,
            <<Chars("horizons"), ClayHorizons(FrameA)>>,
            <<<<"c", "l", "a", "y", "_", "1", "_", "3">>, Num(97)>>,
            <<<<"c", "l", "a", "y", "_", "1", "c", "m">>, Num(96)>>,
            <<<<"s", "a", "n", "d", "_", "0", "_", "1">>, Num(95)>> >>)

ComponentLists ==
    { <<CompA, CompInverted, CompGap>>, <<CompHalf, CompA>>, <<CompA, CompNoHorizons, CompGap>>,
      <<CompA, CompGap>>, <<CompInverted>>, <<CompA, CompNotDict, CompGap>>,
      <<CompInfinite, CompA>>, <<CompColumn, CompA>>, <<CompUserDict, CompA>>,
      <<CompA, CompProxy, CompGap>> }

Args(strict, output_type, mode) ==
    [var_name |-> [kind |-> "none"], target_depths |-> GridTargets, lam |-> DefaultLam,
     vlow |-> Zero, vhigh |-> Num(1000), strict |-> strict, output_type |-> output_type,
     mode |-> mode]

ArgsSet ==
    {Args(strict, output_type, "dcm") : strict \in BOOLEAN, output_type \in {"long", "wide"}}
        \cup {Args(FALSE, "long", "icm"), Args(FALSE, "long", "1cm")}

MpsplineCalls ==
    {[op |-> "mpspline", obj |-> l, args |-> a] : l \in ComponentLists, a \in ArgsSet}
        \cup {[op |-> "mpspline_one", component_data |-> c, args |-> a] :
                 c \in {CompA, CompInverted, CompHalf, CompNoHorizons}, a \in ArgsSet}

\* Components for single calls: one without the 'horizons' key, one with a
\* single horizon (an invalid sequence), one whose horizons carry two
\* properties, and one with metadata under keys that a long record assigns.
CompNoKey == Dict(<< <<Chars("cokey"), 6>> >>)
CompOneHorizon == Component(7, ClayHorizons(FrameOneRow))
CompBoth ==
    Component(8, <<Horizon(Num(0), Num(2), [clay |-> Num(1), sand |-> Num(2)]),
                   Horizon(Num(2), Num(3), [clay |-> Num(2), sand |-> Num(1)])>>)
CompValue ==
    Dict(<< <<Chars("cokey"), 10>>, <<Chars("value"), 99>>, <<Chars("upper"), 98>>,
            <<Chars("depth"), 97>>, <<Chars("horizons"), ClayHorizons(FrameA)>> >>)

\* The keyword arguments left at their defaults (spline.py 213-220).
DefaultArgs ==
    [var_name |-> [kind |-> "none"], target_depths |-> GLOBALSM_DEPTHS, lam |-> DefaultLam,
     vlow |-> Zero, vhigh |-> Num(1000), strict |-> FALSE, output_type |-> "long",
     mode |-> "dcm"]

\* var_name given as a name or as a list of names; silt is a property no
\* component carries.
VarNames ==
    { [kind |-> "str", name |-> "clay"], [kind |-> "str", name |-> "silt"],
      [kind |-> "list", names |-> <<"sand", "silt">>],
      [kind |-> "list", names |-> <<"sand", "clay">>],
      [kind |-> "list", names |-> <<>>] }

VarArgsSet ==
    {[Args(strict, output_type, "dcm") EXCEPT !.var_name = v] :
        strict \in BOOLEAN, output_type \in {"long", "wide"}, v \in VarNames}

\* The three modes under both output types and both values of strict.
ModeArgsSet ==
    {Args(strict, output_type, mode) :
        strict \in BOOLEAN, output_type \in {"long", "wide"}, mode \in {"dcm", "1cm", "icm"}}

SingleCalls ==
    {[op |-> "mpspline_one", component_data |-> c, args |-> a] :
        c \in {CompNotDict, CompUserDict, CompNoKey, CompOneHorizon, CompBoth},
        a \in ArgsSet \cup {DefaultArgs, [DefaultArgs EXCEPT !.output_type = "wide"]}}
      \cup {[op |-> "mpspline_one", component_data |-> c, args |-> a] :
                c \in {CompA, CompBoth, CompHalf}, a \in VarArgsSet \cup {DefaultArgs}}
      \cup {[op |-> "mpspline_one", component_data |-> c, args |-> a] :
                c \in {CompA, CompBoth, CompValue, CompColumn, CompInfinite},
                a \in ModeArgsSet}
      \cup {[op |-> "mpspline:object", component_data |-> c, args |-> a] :
                c \in {CompA, CompBoth, CompInverted, CompUserDict, [pytype |-> "str"],
                       [pytype |-> "NoneType"]},
                a \in {DefaultArgs, [DefaultArgs EXCEPT !.output_type = "wide"],
                       Args(TRUE, "long", "dcm")}}

\* mpspline(obj, parallel=True, **args) over the lists.
ParallelCalls ==
    {[op |-> "mpspline:parallel", obj |-> l, args |-> a] : l \in ComponentLists, a \in ArgsSet}

ProgCalls ==
    {SplineOneCall(df, <<GridTargets, NarrowClip>>) : df \in ProgFrames}
        \cup GetCalls
        \cup {[op |-> "_estimate_spline_parameters", depths_top |-> UD(FrameA),
               depths_bottom |-> LD(FrameA), values |-> v, lam |-> DefaultLam] :
                  v \in {<<Num(1), Num(2)>>, <<Num(1)>>}}
        \cup {[op |-> "spline_multiple", df |-> b, lam |-> DefaultLam,
               target_depths |-> GridTargets, vlow |-> Zero, vhigh |-> Num(1000)] :
                  b \in Batches}
        \cup MpsplineCalls
        \cup ParallelCalls
        \cup SingleCalls

\* In a program run at most MaxUntracked cache entries lie under keys other
\* than those of ProgCalls.
MaxUntracked == 2

\* ---- actions ----

Init ==
    /\ _MATRIX_CACHE = EmptyCache
    /\ call = [op |-> "none"]
    /\ result = [state |-> "none"]

Invoke(Calls) ==
    /\ result.state \notin {"pending", "running"}
    /\ call' \in Calls
    /\ result' = Pending
    /\ UNCHANGED _MATRIX_CACHE

\* A call of the builder with a fresh key outside the explored ones, while
\* the cache holds fewer than `limit` entries.
InvokeUntracked(limit) ==
    /\ result.state \notin {"pending", "running"}
    /\ CacheLen(_MATRIX_CACHE) < limit
    /\ call' = [op |-> "_get_spline_matrices:untracked"]
    /\ result' = Pending
    /\ UNCHANGED _MATRIX_CACHE

\* The call in progress returns: the cache and the result are replaced.
Return(cache, returned) ==
    /\ _MATRIX_CACHE' = cache
    /\ result' = returned
    /\ UNCHANGED call

GetSplineMatricesStep ==
    /\ call.op = "_get_spline_matrices" /\ result = Pending
    /\ With(_get_spline_matrices(_MATRIX_CACHE, call.depths_top, call.depths_bottom, call.lam),
            LAMBDA got :
                Return(got.cache, [state |-> "returned", raised |-> got.ret.raised,
                                   ret |-> got.ret, hit |-> got.hit]))

\* _get_spline_matrices for a key outside the explored ones that is not cached.
GetUntrackedStep ==
    /\ call.op = "_get_spline_matrices:untracked" /\ result = Pending
    /\ Return([ClearIfFull(_MATRIX_CACHE) EXCEPT !.extra = @ + 1],
              [state |-> "returned", raised |-> "", hit |-> FALSE])

EstimateStep ==
    /\ call.op = "_estimate_spline_parameters" /\ result = Pending
    /\ With(_estimate_spline_parameters(_MATRIX_CACHE, call.depths_top, call.depths_bottom,
                                        call.values, call.lam),
            LAMBDA est :
                Return(est.cache, [state |-> "returned", raised |-> est.params.raised,
                                   params |-> est.params, mats |-> est.mats,
                                   hit |-> est.hit]))

SplineOneStep ==
    /\ call.op = "spline_one" /\ result = Pending
    /\ With(spline_one(_MATRIX_CACHE, call.df, call.lam, call.target_depths,
                       call.vlow, call.vhigh),
            LAMBDA r :
                Return(r.cache, [state |-> "returned", raised |-> r.out.raised,
                                 out |-> r.out, n |-> r.n]))

RmseStep ==
    /\ call.op = "_calculate_rmse" /\ result = Pending
    /\ Return(_MATRIX_CACHE, [state |-> "returned", raised |-> "",
                              out |-> _calculate_rmse(call.values, call.fitted)])

PredictStep ==
    /\ call.op = "_fit_spline_predictions" /\ result = Pending
    /\ Return(_MATRIX_CACHE,
              [state |-> "returned", raised |-> "",
               out |-> _fit_spline_predictions(call.params, call.max_depth,
                                               call.target_depths, call.vlow, call.vhigh)])

SplineMultipleStep ==
    /\ call.op = "spline_multiple" /\ result = Pending
    /\ With(spline_multiple(_MATRIX_CACHE, call.df, call.lam, call.target_depths,
                            call.vlow, call.vhigh),
            LAMBDA r :
                Return(r.cache, [state |-> "returned", raised |-> "", results |-> r.results]))

MpsplineOneStep ==
    /\ call.op = "mpspline_one" /\ result = Pending
    /\ With(mpspline_one(_MATRIX_CACHE, call.component_data, call.args), LAMBDA r :
            Return(r.cache, IF r.raised # "" THEN [state |-> "returned", raised |-> r.raised]
                            ELSE [state |-> "returned", raised |-> "", ret |-> r.ret]))

\* mpspline(obj, **args) for an obj that is no list: a dict goes to
\* mpspline_one (lines 427-438), anything else is refused (lines 443-444).
MpsplineObjectStep ==
    /\ call.op = "mpspline:object" /\ result = Pending
    /\ With(mpspline_object(_MATRIX_CACHE, call.component_data, call.args), LAMBDA r :
            Return(r.cache, IF r.raised # "" THEN [state |-> "returned", raised |-> r.raised]
                            ELSE [state |-> "returned", raised |-> "", ret |-> r.ret]))

MpsplineStep ==
    /\ call.op = "mpspline" /\ result = Pending
    /\ With(mpspline(_MATRIX_CACHE, call.obj, call.args), LAMBDA r :
            Return(r.cache, IF r.raised # "" THEN [state |-> "returned", raised |-> r.raised]
                            ELSE [state |-> "returned", raised |-> "",
                                  harmonized |-> r.harmonized, rows |-> r.rows]))

\* mpspline with parallel=True, lines 452-464 and 587-605: the pool is
\* created and the components are handed to it; `todo` holds the positions of
\* the components whose result the parent has not taken yet.
ParallelStartStep ==
    /\ call.op = "mpspline:parallel" /\ result = Pending
    /\ result' = [state |-> "running", todo |-> 1..Len(call.obj), harmonized |-> <<>>]
    /\ UNCHANGED <<_MATRIX_CACHE, call>>

\* pool.imap_unordered yields the results in the order the workers complete
\* them: any component still awaited may be the next.  A worker fits on its
\* own copy of the cache, the parent's cache is not written.  An exception of
\* the worker is raised again in the parent and ends the call, and so is the
\* TypeError for a component that could not be pickled to a worker, which no
\* handler of the worker sees, whatever strict says.
WorkerResultStep ==
    /\ call.op = "mpspline:parallel" /\ result.state = "running"
    /\ \E i \in result.todo :
          IF ~Picklable(call.obj[i])
          THEN result' = [state |-> "returned", raised |-> "TypeError"]
          ELSE With(_harmonize_worker(_MATRIX_CACHE, call.obj[i], call.args), LAMBDA w :
                 result' = IF w.raised # "" THEN [state |-> "returned", raised |-> w.raised]
                           ELSE [result EXCEPT !.todo = @ \ {i},
                                               !.harmonized = Collect(@, w)])
    /\ UNCHANGED <<_MATRIX_CACHE, call>>

\* Every result is taken: _process_parallel returns and mpspline builds the
\* DataFrame.
ParallelReturnStep ==
    /\ call.op = "mpspline:parallel" /\ result.state = "running" /\ result.todo = {}
    /\ result' = [state |-> "returned", raised |-> "", harmonized |-> result.harmonized,
                  rows |-> DataFrameRows(result.harmonized, call.args.output_type)]
    /\ UNCHANGED <<_MATRIX_CACHE, call>>

Next ==
    \/ Invoke(ProgCalls)
    \/ InvokeUntracked(MaxUntracked)
    \/ GetSplineMatricesStep
    \/ GetUntrackedStep
    \/ EstimateStep
    \/ SplineOneStep
    \/ SplineMultipleStep
    \/ MpsplineOneStep
    \/ MpsplineStep
    \/ MpsplineObjectStep
    \/ ParallelStartStep
    \/ WorkerResultStep
    \/ ParallelReturnStep

Spec == Init /\ [][Next]_vars

\* ---- the builder called with ever new keys ----

NextFill ==
    \/ Invoke(GetCalls \cup NanCalls)
    \/ InvokeUntracked(_MAX_CACHE_SIZE + 2)
    \/ GetSplineMatricesStep
    \/ GetUntrackedStep

SpecFill == Init /\ [][NextFill]_vars

\* spline_multiple with var_name a name or a list of names, on many-site
\* DataFrames whose value column is clay: silt and sand are no columns, the
\* depths and the site identifier are.
MultipleVarNames ==
    { [kind |-> "str", name |-> "clay"], [kind |-> "str", name |-> "silt"],
      [kind |-> "str", name |-> "UD"], [kind |-> "str", name |-> "SID"],
      [kind |-> "list", names |-> <<"LD", "silt">>],
      [kind |-> "list", names |-> <<"UD", "clay">>],
      [kind |-> "list", names |-> <<"clay">>], [kind |-> "list", names |-> <<"silt">>],
      [kind |-> "list", names |-> <<"silt", "clay">>],
      [kind |-> "list", names |-> <<"silt", "sand">>],
      [kind |-> "list", names |-> <<>>] }

MultipleCalls ==
    {[op |-> "spline_multiple:var_name", df |-> b, column |-> "clay", var_name |-> v,
      lam |-> DefaultLam, target_depths |-> GridTargets, vlow |-> Zero, vhigh |-> Num(1000)] :
        b \in Batches, v \in MultipleVarNames}

SplineMultipleVarNameStep ==
    /\ call.op = "spline_multiple:var_name" /\ result = Pending
    /\ With(spline_multiple_var_name(_MATRIX_CACHE, call.df, call.column, call.var_name,
                                     call.lam, call.target_depths, call.vlow, call.vhigh),
            LAMBDA r :
                Return(r.cache,
                       IF r.raised # "" THEN [state |-> "returned", raised |-> r.raised]
                       ELSE [state |-> "returned", raised |-> "",
                             unwrapped |-> r.unwrapped, results |-> r.results]))

\* Direct calls of the builder on every pattern of two and three grid
\* intervals and on patterns of four and five intervals, contiguous and with
\* gaps.
LongPatterns ==
    { <<<<Num(0), Num(1), Num(2), Num(3)>>, <<Num(1), Num(2), Num(3), Num(4)>>>>,
      <<<<Num(0), Num(2), Num(5), Num(7)>>, <<Num(1), Num(4), Num(6), Num(10)>>>>,
      <<<<Num(0), Num(1), Num(3), Num(4), Num(6)>>,
        <<Num(1), Num(3), Num(4), Num(5), Num(8)>>>> }

MatrixCalls ==
    {GetCall(p[1], p[2], DefaultLam) :
        p \in GridPatterns \cup GridPatterns3 \cup CleanPatterns \cup LongPatterns
                \cup NonFinitePatterns}

\* _validate_and_prepare_data(df, var_name) on every frame.
PrepareCalls == {[op |-> "_validate_and_prepare_data", df |-> df] : df \in Frames}

PrepareStep ==
    /\ call.op = "_validate_and_prepare_data" /\ result = Pending
    /\ With(_validate_and_prepare_data(call.df), LAMBDA s :
            Return(_MATRIX_CACHE,
                   [state |-> "returned", raised |-> "", none |-> s.none, s |-> s.rows]))

\* Horizon sequences for validation: horizons over the depth grid, inverted
\* and empty ones included; a negative top, a thin horizon, one deeper than
\* max_horizon_depth, one with a missing lower depth, one without end, two
\* with an infinite property; sequences of two of any of these and of three
\* well-formed ones, in every order; and sequences of three horizons one of
\* which has a missing upper depth.
GridHorizons ==
    {Horizon(u, l, [clay |-> Num(1)]) : u, l \in GridDepths}

SpecialHorizons ==
    { Horizon(Num(-1), Num(1), [clay |-> Num(1)]),
      Horizon(Frac(1, 2), Num(1), [clay |-> Num(1)]),
      Horizon(Num(MaxDepth), Num(max_horizon_depth + 1), [clay |-> Num(1)]),
      Horizon(Num(1), NaN, [clay |-> NaN]),
      Horizon(Num(2), Inf, [clay |-> Num(1)]),
      Horizon(Num(0), Num(1), [clay |-> Inf]),
      Horizon(Num(1), Num(2), [clay |-> RNeg(Inf), sand |-> NaN]),
      HorizonInOrder(Num(0), Num(2), [sand |-> Inf, clay |-> NaN], <<"sand", "clay">>),
      Horizon(Num(2), Num(3), [clay |-> Num(1), silt |-> NaN]) }

MissingUpper ==
    { Horizon(Num(0), Num(1), [clay |-> Num(1)]), Horizon(Num(2), Num(3), [clay |-> Num(1)]),
      Horizon(NaN, Num(2), [clay |-> Num(1)]) }

WellFormed(hz) == RLe(Zero, hz.upper) /\ RLt(hz.upper, hz.lower)

HorizonLists ==
    {<<>>}
      \cup {<<h>> : h \in GridHorizons}
      \cup {<<h1, h2>> : h1, h2 \in GridHorizons \cup SpecialHorizons}
      \cup {<<h1, h2, h3>> : h1, h2, h3 \in {h \in GridHorizons : WellFormed(h)}}
      \cup {<<h1, h2, h3>> : h1, h2, h3 \in MissingUpper}

ValidateCalls ==
    {[op |-> "validate_horizon_sequence", horizons |-> hs, strict |-> strict,
      cpython |-> cpython] :
        hs \in HorizonLists, strict \in BOOLEAN, cpython \in CPythons}
      \cup {[op |-> "HorizonSequence", horizons |-> hs, strict |-> strict] :
                hs \in HorizonLists, strict \in BOOLEAN}

ValidateStep ==
    /\ call.op = "validate_horizon_sequence" /\ result = Pending
    /\ With(validate_horizon_sequence(call.horizons, call.strict, call.cpython),
            LAMBDA validation :
            Return(_MATRIX_CACHE,
                   IF validation.raised # ""
                   THEN [state |-> "returned", raised |-> validation.raised]
                   ELSE [state |-> "returned", raised |-> "", validation |-> validation]))

HorizonSequenceStep ==
    /\ call.op = "HorizonSequence" /\ result = Pending
    /\ With(HorizonSequence(call.horizons, call.strict), LAMBDA hz_seq :
            Return(_MATRIX_CACHE,
                   IF hz_seq.raised # ""
                   THEN [state |-> "returned", raised |-> hz_seq.raised]
                   ELSE [state |-> "returned", raised |-> "",
                         horizons |-> hz_seq.horizons, properties |-> hz_seq.properties]))

\* Interval bounds for the naming round trip: every integer up to MaxName
\* and bounds with inner and trailing zeros, of three and of four digits.
MaxName == 12

NameBounds == 0..MaxName \cup {20, 99, 100, 101, 110, 200, 999, 1000, 1001, 1010}

NameCalls == {[op |-> "names_dcm", top |-> t, bottom |-> b] : t, b \in NameBounds}

\* The name _fit_spline_predictions gives the interval (algorithm.py 284-287)
\* and the bounds mpspline_one reads back from it (spline.py 339-348).
NameStep ==
    /\ call.op = "names_dcm" /\ result = Pending
    /\ With(IntervalName(call.top, call.bottom), LAMBDA depth_name :
            Return(_MATRIX_CACHE,
                   [state |-> "returned", raised |-> "", depth_name |-> depth_name,
                    upper |-> ParseBound(NameParts(depth_name)[1]),
                    lower |-> ParseBound(NameParts(depth_name)[2])]))

\* ---- the fitting functions on every input of the bounded sets ----

InitFit ==
    /\ _MATRIX_CACHE = EmptyCache
    /\ call \in SplineOneCalls \cup EstimateCalls \cup RmseCalls \cup PredictCalls
                \cup NameCalls \cup ValidateCalls \cup PrepareCalls \cup MatrixCalls
                \cup MultipleCalls
    /\ result = Pending

NextFit ==
    \/ SplineOneStep \/ EstimateStep \/ RmseStep \/ PredictStep \/ NameStep
    \/ ValidateStep \/ HorizonSequenceStep \/ PrepareStep \/ GetSplineMatricesStep
    \/ SplineMultipleVarNameStep

SpecFit == InitFit /\ [][NextFit]_vars

\* ---- _get_spline_matrices called from several threads ----

\* Each thread makes one call on the shared cache.  call[t] is the call of
\* thread t and result[t] its position in lines 64-120 and what it got.  The
\* dict operations (in, [], len, clear, []=) are single steps; the build
\* between the clear and the insert touches nothing shared and is taken with
\* the insert.
NumThreads == 3

Threads == 1..NumThreads

\* The calls of the threads: two patterns under two values of lam, and a
\* pattern with an infinite boundary, whose build raises ValueError.
RaisingCall == GetCall(<<Num(0), Num(2)>>, <<Num(2), Inf>>, DefaultLam)

ThreadCalls ==
    {GetCall(UD(df), LD(df), lam) : df \in {FrameA, FrameGap}, lam \in Lams}
        \cup {RaisingCall}

KeyOf(c) == CacheKey(c.depths_top, c.depths_bottom, c.lam)

\* The cache as sequential calls can leave it within its bound: empty, or
\* holding _MAX_CACHE_SIZE entries, one of them under an explored key.
ThreadCaches ==
    { EmptyCache,
      CacheStore([m |-> <<>>, extra |-> _MAX_CACHE_SIZE - 1],
                 CacheKey(UD(FrameA), LD(FrameA), DefaultLam),
                 BuildMatrices(UD(FrameA), LD(FrameA), DefaultLam)) }

InitThreads ==
    /\ _MATRIX_CACHE \in ThreadCaches
    /\ call \in [Threads -> ThreadCalls]
    /\ result = [t \in Threads |-> [pc |-> "in"]]

At(t, pc) == result[t].pc = pc

Goto(t, pc) == result' = [result EXCEPT ![t] = [pc |-> pc]]

\* Line 66: if cache_key in _MATRIX_CACHE
MembershipStep ==
    \E t \in Threads :
        /\ At(t, "in")
        /\ Goto(t, IF CacheHas(_MATRIX_CACHE, KeyOf(call[t])) THEN "read" ELSE "len")
        /\ UNCHANGED <<_MATRIX_CACHE, call>>

\* Lines 67-68: cached = _MATRIX_CACHE[cache_key]; return cached
ReadStep ==
    \E t \in Threads :
        /\ At(t, "read")
        /\ result' = [result EXCEPT ![t] =
                         IF CacheHas(_MATRIX_CACHE, KeyOf(call[t]))
                         THEN [pc |-> "done", raised |-> "",
                               ret |-> _MATRIX_CACHE.m[KeyOf(call[t])]]
                         ELSE [pc |-> "done", raised |-> "KeyError"]]
        /\ UNCHANGED <<_MATRIX_CACHE, call>>

\* Line 71: if len(_MATRIX_CACHE) > _MAX_CACHE_SIZE
LenStep ==
    \E t \in Threads :
        /\ At(t, "len")
        /\ Goto(t, IF CacheLen(_MATRIX_CACHE) > _MAX_CACHE_SIZE THEN "clear" ELSE "build")
        /\ UNCHANGED <<_MATRIX_CACHE, call>>

\* Line 72: _MATRIX_CACHE.clear()
ClearStep ==
    \E t \in Threads :
        /\ At(t, "clear")
        /\ _MATRIX_CACHE' = EmptyCache
        /\ Goto(t, "build")
        /\ UNCHANGED call

\* Lines 74-120: the build, _MATRIX_CACHE[cache_key] = result, return result.
\* A build that raises leaves the function before the insert: nothing is
\* stored and the caller gets the exception.
InsertStep ==
    \E t \in Threads :
        /\ At(t, "build")
        /\ With(BuildMatrices(call[t].depths_top, call[t].depths_bottom, call[t].lam),
                LAMBDA built :
                    IF built.raised # ""
                    THEN /\ _MATRIX_CACHE' = _MATRIX_CACHE
                         /\ result' = [result EXCEPT ![t] =
                                          [pc |-> "done", raised |-> built.raised]]
                    ELSE /\ _MATRIX_CACHE' = CacheStore(_MATRIX_CACHE, KeyOf(call[t]), built)
                         /\ result' = [result EXCEPT ![t] =
                                          [pc |-> "done", raised |-> "", ret |-> built]])
        /\ UNCHANGED call

NextThreads == MembershipStep \/ ReadStep \/ LenStep \/ ClearStep \/ InsertStep

SpecThreads == InitThreads /\ [][NextThreads]_vars

-----------------------------------------------------------------------------
(* Properties of the matrix cache/builder.                                 *)

\* The keys <<depths_top, depths_bottom, lam>> that program runs build for
\* and that a later call can hold again.
ProgKeys ==
    {<<UD(df), LD(df), lam>> : df \in {FrameA, FrameGap}, lam \in Lams}
        \cup {<<UD(FrameA), LD(FrameA), lam>> : lam \in NanObjects}

\* Every entry of the cache is what a fresh build for its key produces.
EntriesAreFreshBuilds ==
    /\ DOMAIN _MATRIX_CACHE.m \subseteq {CacheKey(k[1], k[2], k[3]) : k \in ProgKeys}
    /\ \A k \in ProgKeys :
          CacheHas(_MATRIX_CACHE, CacheKey(k[1], k[2], k[3]))
              => _MATRIX_CACHE.m[CacheKey(k[1], k[2], k[3])] = BuildMatrices(k[1], k[2], k[3])

\* A builder call that returned: it returned the fresh build for its key and,
\* unless the key holds a nan of its own, left it in the cache under that key.
ReturnedIsStored ==
    (call.op = "_get_spline_matrices" /\ result.state = "returned" /\ result.raised = "")
        => /\ result.ret = BuildMatrices(call.depths_top, call.depths_bottom, call.lam)
           /\ ~HoldsOwnNan(CacheKey(call.depths_top, call.depths_bottom, call.lam))
                 => /\ CacheHas(_MATRIX_CACHE,
                                CacheKey(call.depths_top, call.depths_bottom, call.lam))
                    /\ _MATRIX_CACHE.m[CacheKey(call.depths_top, call.depths_bottom, call.lam)]
                          = result.ret

\* A builder call whose key is in the cache: a hit that returns the stored
\* matrices and leaves the cache as it is.
HitLeavesCache ==
    (/\ call.op = "_get_spline_matrices" /\ result = Pending /\ result' # Pending
     /\ CacheHas(_MATRIX_CACHE, CacheKey(call.depths_top, call.depths_bottom, call.lam)))
        => /\ result'.hit
           /\ result'.ret = _MATRIX_CACHE.m[CacheKey(call.depths_top, call.depths_bottom, call.lam)]
           /\ _MATRIX_CACHE' = _MATRIX_CACHE

\* C1: a builder call returns the fresh build for its key and leaves it stored
\* under the key; a call whose key is stored is a hit that returns the stored
\* matrices and leaves the cache unchanged (so a second call with the same
\* arguments returns the same matrices as the first); and every entry of every
\* reachable cache equals the fresh build for its key.
C1_CacheIdempotent ==
    /\ [](EntriesAreFreshBuilds /\ ReturnedIsStored)
    /\ [][HitLeavesCache]_vars

\* C1 witness: a builder call has returned from the cache.
C1_Witness ==
    /\ call.op = "_get_spline_matrices"
    /\ result.state = "returned" /\ result.raised = "" /\ result.hit
    /\ result.ret = BuildMatrices(call.depths_top, call.depths_bottom, call.lam)

\* A builder call with lam a nan object: the entry stored under the object is
\* found by a call that passes the same object, and by no call that passes
\* another nan; a call that passes a nan of its own finds nothing and adds an
\* entry (after the clear of lines 70-72 when the cache is over its bound).
NanLamByObject ==
    (/\ call.op = "_get_spline_matrices" /\ result = Pending /\ result' # Pending
     /\ isnan(call.lam))
        => LET key == CacheKey(call.depths_top, call.depths_bottom, call.lam)
           IN  /\ result'.hit <=> (call.lam \in NanObjects /\ key \in DOMAIN _MATRIX_CACHE.m)
               /\ result'.hit => _MATRIX_CACHE' = _MATRIX_CACHE
               /\ ~result'.hit
                     => CacheLen(_MATRIX_CACHE')
                           = CacheLen(ClearIfFull(_MATRIX_CACHE)) + 1

NanLamKeyedByObject == [][NanLamByObject]_vars

\* Both nan objects have entries and a call with one of them has hit.
NanLamHit ==
    /\ call.op = "_get_spline_matrices" /\ call.lam \in NanObjects
    /\ result.state = "returned" /\ result.hit
    /\ \A lam \in NanObjects :
          CacheKey(call.depths_top, call.depths_bottom, lam) \in DOMAIN _MATRIX_CACHE.m

\* C2 (as stated; refuted under SpecFill): the cache never holds more than
\* _MAX_CACHE_SIZE entries.
C2_CacheBounded == CacheLen(_MATRIX_CACHE) <= _MAX_CACHE_SIZE

\* The values an estimator call could have carried instead.
OtherValues == {<<Num(1), Num(2)>>, <<Num(2), Num(1)>>, <<NaN, Num(7)>>, <<Num(1)>>}

\* An estimator call returns: the matrices are those of its key alone, taken
\* from the cache when the key is there, and the cache afterwards is the same
\* whatever the measured values are; entries under other keys stay as they are.
EstimateReadsKeyOnly ==
    (call.op = "_estimate_spline_parameters" /\ result = Pending /\ result' # Pending)
        => /\ result'.mats = BuildMatrices(call.depths_top, call.depths_bottom, call.lam)
           /\ CacheHas(_MATRIX_CACHE, CacheKey(call.depths_top, call.depths_bottom, call.lam))
                 => /\ result'.hit
                    /\ result'.mats
                          = _MATRIX_CACHE.m[CacheKey(call.depths_top, call.depths_bottom, call.lam)]
                    /\ _MATRIX_CACHE' = _MATRIX_CACHE
           /\ \A v \in OtherValues :
                 LET other == _estimate_spline_parameters(_MATRIX_CACHE, call.depths_top,
                                                          call.depths_bottom, v, call.lam)
                 IN  other.cache = _MATRIX_CACHE' /\ other.mats = result'.mats
           /\ \A k \in DOMAIN _MATRIX_CACHE.m :
                 k \in DOMAIN _MATRIX_CACHE'.m /\ _MATRIX_CACHE'.m[k] = _MATRIX_CACHE.m[k]

\* Keys that differ in a boundary or in lam are different entries, each with
\* the matrices of its own key.
KeysApart ==
    \A k1 \in ProgKeys : \A k2 \in ProgKeys :
        (/\ CacheHas(_MATRIX_CACHE, CacheKey(k1[1], k1[2], k1[3]))
         /\ CacheHas(_MATRIX_CACHE, CacheKey(k2[1], k2[2], k2[3]))
         /\ k1 # k2)
            => /\ CacheKey(k1[1], k1[2], k1[3]) # CacheKey(k2[1], k2[2], k2[3])
               /\ _MATRIX_CACHE.m[CacheKey(k1[1], k1[2], k1[3])] = BuildMatrices(k1[1], k1[2], k1[3])
               /\ _MATRIX_CACHE.m[CacheKey(k2[1], k2[2], k2[3])] = BuildMatrices(k2[1], k2[2], k2[3])

\* C3: the cache is keyed by the depth pattern and lam only: a fit uses the
\* matrices of its <<depths_top, depths_bottom, lam>> from the cache whatever
\* its measured values are, the values do not change what the cache holds
\* afterwards, and keys that differ in a boundary or in lam are separate
\* entries.
C3_KeyedByPatternAndLam ==
    /\ []KeysApart
    /\ [][EstimateReadsKeyOnly]_vars

\* C3 witness: a fit whose matrices came from the cache; the cache holds the
\* same boundaries under both values of lam.
C3_Witness ==
    /\ call.op = "_estimate_spline_parameters"
    /\ result.state = "returned" /\ result.raised = "" /\ result.hit
    /\ \A lam \in Lams :
          CacheHas(_MATRIX_CACHE, CacheKey(call.depths_top, call.depths_bottom, lam))

-----------------------------------------------------------------------------
(* Properties of failures in a batch.                                      *)

\* component_data["horizons"], and whether component_data is a dict that has
\* a non-empty one.
HorizonsOf(component_data) == DictGet(component_data, Chars("horizons"))

HasHorizons(component_data) ==
    /\ component_data.pytype = "dict"
    /\ DictHas(component_data, Chars("horizons"))
    /\ HorizonsOf(component_data) # <<>>

\* What harmonizing every component alone, each on an empty cache, gives: the
\* results of those that do not raise, in the order of the list.
RECURSIVE EachAlone(_, _)
EachAlone(components, args) ==
    IF components = <<>> THEN <<>>
    ELSE (IF mpspline_one(EmptyCache, components[1], args).raised # "" THEN <<>>
          ELSE <<mpspline_one(EmptyCache, components[1], args).ret>>)
            \o EachAlone(Tail(components), args)

\* The list without its i-th component.
Without(components, i) ==
    SubSeq(components, 1, i - 1) \o SubSeq(components, i + 1, Len(components))

\* The rows of a many-site DataFrame without those of one site.
WithoutSite(df, site_id) == SelectSeq(df, LAMBDA r : r.SID # site_id)

\* spline_multiple has returned: a site whose fit raises has the all-NaN
\* result, every other site the result of spline_one on its rows alone, which
\* is also its result in the batch without the failing site.
SitesIsolated ==
    (call.op = "spline_multiple" /\ result.state = "returned")
        => /\ result.raised = ""
           /\ DOMAIN result.results = {call.df[i].SID : i \in 1..Len(call.df)}
           /\ \A k \in DOMAIN result.results :
                 LET alone == spline_one(EmptyCache, SiteRows(call.df, k), call.lam,
                                         call.target_depths, call.vlow, call.vhigh).out
                 IN  IF alone.raised # ""
                     THEN /\ result.results[k].path = "except"
                          /\ \A j \in 1..Len(call.target_depths) :
                                isnan(result.results[k].est_dcm[j])
                          /\ \A o \in (DOMAIN result.results) \ {k} :
                                spline_multiple(EmptyCache, WithoutSite(call.df, k), call.lam,
                                                call.target_depths, call.vlow,
                                                call.vhigh).results[o]
                                   = result.results[o]
                     ELSE result.results[k] = alone

\* mpspline over a list has returned: it raised nothing, and every component
\* has in the output what it gets when harmonized alone (nothing when that
\* raises); the output is the same without a component that raises.
ComponentsIsolated ==
    /\ result.raised = ""
    /\ result.harmonized = EachAlone(call.obj, call.args)
    /\ \A i \in 1..Len(call.obj) :
          mpspline_one(EmptyCache, call.obj[i], call.args).raised # ""
              => mpspline(EmptyCache, Without(call.obj, i), call.args).harmonized
                    = result.harmonized

\* mpspline_one has returned the long form without strict: every property has
\* the records it gets when it is the only property processed.
PropertiesIsolated ==
    (/\ call.op = "mpspline_one" /\ result.state = "returned" /\ ~call.args.strict
     /\ call.args.output_type = "long"
     /\ HasHorizons(call.component_data)
     /\ HorizonSequence(HorizonsOf(call.component_data), FALSE).raised = "")
        => LET todo == PropertiesToProcess(call.args.var_name,
                                           Properties(HorizonsOf(call.component_data)))
           IN  /\ result.raised = ""
               /\ result.ret
                    = Concat([i \in 1..Len(todo) |->
                                PropertyLoop(EmptyCache, HorizonsOf(call.component_data),
                                             Metadata(call.component_data),
                                             <<todo[i]>>, <<>>,
                                             Metadata(call.component_data),
                                             call.args).long_results])

\* The claim for either value of strict: after a failure in one profile the
\* cache is intact and every other profile of the batch has its result, in
\* spline_multiple and in mpspline over a list.  With strict=True mpspline
\* raises the failure again, as its docstring says.
C5_FailureIsolated ==
    /\ result.state = "returned" => EntriesAreFreshBuilds
    /\ SitesIsolated
    /\ (call.op = "mpspline" /\ result.state = "returned") => ComponentsIsolated

\* C5: a failure in one profile or property aborts only that one.  After
\* every call each stored cache entry is the build of its key; in
\* spline_multiple, and in mpspline over a list called without strict, every
\* other profile has the result it has in the batch without the failing one;
\* and in mpspline_one without strict a property whose fit raises leaves the
\* other properties of the component their records.
C5_FailureIsolatedUnlessStrict ==
    /\ result.state = "returned" => EntriesAreFreshBuilds
    /\ SitesIsolated
    /\ (call.op = "mpspline" /\ result.state = "returned" /\ ~call.args.strict)
          => ComponentsIsolated
    /\ PropertiesIsolated

\* The same for the lists whose components all have a get method.
DictComponentsIsolated ==
    /\ result.state = "returned" => EntriesAreFreshBuilds
    /\ SitesIsolated
    /\ (/\ call.op = "mpspline" /\ result.state = "returned" /\ ~call.args.strict
        /\ \A i \in 1..Len(call.obj) : ~HasNoGet(call.obj[i]))
          => ComponentsIsolated
    /\ PropertiesIsolated

\* A list with a component that is a list between two that can be fitted,
\* harmonized without strict: the call has raised AttributeError after
\* fitting the first component.
NotDictAbortsBatch ==
    /\ call.op = "mpspline" /\ result.state = "returned" /\ ~call.args.strict
    /\ call.obj = <<CompA, CompNotDict, CompGap>>
    /\ result.raised = "AttributeError"
    /\ DOMAIN _MATRIX_CACHE.m # {}

\* A list with a component whose harmonization raises between two that are
\* fitted has been harmonized without strict, and holds the records of the
\* two.
C5_Witness ==
    /\ call.op = "mpspline" /\ result.state = "returned" /\ ~call.args.strict
    /\ call.obj = <<CompA, CompNoHorizons, CompGap>>
    /\ mpspline_one(EmptyCache, call.obj[2], call.args).raised # ""
    /\ call.args.output_type = "long" /\ call.args.mode = "dcm"
    /\ result.raised = ""
    /\ Len(result.rows) = 2 * Len(call.args.target_depths)
    /\ DOMAIN _MATRIX_CACHE.m # {}

-----------------------------------------------------------------------------
(* Properties of the fitting functions.                                    *)

\* The boundaries, the values and lambda are finite reals, as the input
\* constraints of the builder and of the estimator require.
FiniteInput(depths_top, depths_bottom, values, lam) ==
    /\ ~HasNonFinite(<<depths_top, depths_bottom, values>>)
    /\ IsFinite(lam)

\* C4: an estimator call with n >= 2 intervals and one finite value per
\* interval returns, raising nothing, one finite fitted mean per interval,
\* also when R or Z is singular (then R_inv is the pseudo-inverse of R, s_bar
\* the least-squares solution); and a spline_one call that fits n >= 2
\* intervals with finite boundaries and values returns its result.
C4_SingularNeverFails ==
    /\ (/\ call.op = "_estimate_spline_parameters" /\ result.state = "returned"
        /\ Len(call.depths_top) >= 2 /\ Len(call.values) = Len(call.depths_top)
        /\ FiniteInput(call.depths_top, call.depths_bottom, call.values, call.lam))
          => /\ result.raised = ""
             /\ Len(result.params.s_bar) = Len(call.depths_top)
             /\ \A i \in 1..Len(result.params.s_bar) : IsFinite(result.params.s_bar[i])
             /\ \A i \in 1..Len(result.mats.R_inv) : \A j \in 1..Len(result.mats.R_inv) :
                   IsFinite(result.mats.R_inv[i][j])
             /\ Det(BuildR(result.mats.th, result.mats.gp)) = Zero
                   => result.mats.R_inv = PseudoInverse(BuildR(result.mats.th, result.mats.gp))
             /\ Det(result.mats.Z) = Zero
                   => result.params.s_bar = MatVec(PseudoInverse(result.mats.Z), call.values)
    /\ (/\ call.op = "spline_one" /\ result.state = "returned" /\ result.n >= 2
        /\ With(_validate_and_prepare_data(call.df).rows, LAMBDA s :
                FiniteInput([i \in 1..Len(s) |-> s[i].UD], [i \in 1..Len(s) |-> s[i].LD],
                            [i \in 1..Len(s) |-> s[i].v], call.lam)))
          => result.raised = "" /\ result.out.path = "fit"

\* C4 witness: a fit over a singular R has returned its fitted means.
C4_Witness ==
    /\ call.op = "_estimate_spline_parameters"
    /\ result.state = "returned" /\ result.raised = ""
    /\ Det(BuildR(result.mats.th, result.mats.gp)) = Zero
    /\ \A i \in 1..Len(result.params.s_bar) : IsFinite(result.params.s_bar[i])

\* Outside the input constraint: a value, a lambda or a boundary that is not
\* finite makes the estimator raise ValueError, and so spline_one for a
\* profile with an infinite value.
NonFiniteRaises ==
    /\ (/\ call.op = "_estimate_spline_parameters" /\ result.state = "returned"
        /\ ~FiniteInput(call.depths_top, call.depths_bottom, call.values, call.lam))
          => result.raised = "ValueError"
    /\ (/\ call.op = "spline_one" /\ result.state = "returned" /\ result.n >= 2
        /\ With(_validate_and_prepare_data(call.df).rows, LAMBDA s :
                \E i \in 1..Len(s) : IsInf(s[i].v)))
          => result.raised = "ValueError"

NonFiniteValueReached ==
    /\ call.op = "_estimate_spline_parameters" /\ result.state = "returned"
    /\ call.values = <<Num(1), Inf>>
    /\ result.raised = "ValueError"

InfiniteValueInProfileReached ==
    /\ call.op = "spline_one" /\ result.state = "returned"
    /\ call.df = <<Row(Num(0), Num(2), Num(1)), Row(Num(2), Num(3), Inf)>>
    /\ result.raised = "ValueError"

\* A fit over a singular Z has returned its fitted means.
SingularZReturned ==
    /\ call.op = "_estimate_spline_parameters"
    /\ result.state = "returned" /\ result.raised = ""
    /\ Det(result.mats.Z) = Zero

\* C6: whenever spline_one returns, on each of its three return statements,
\* est_dcm and names_dcm have one entry per target interval, entry j being the
\* name of target interval j and (for a fitted profile) the aggregate over
\* target interval j; for the targets [(0,10),(10,30),(30,50)] that is three
\* values, the first named 000_010_cm.
C6_AlignedWithTargets ==
    (call.op = "spline_one" /\ result.state = "returned" /\ result.raised = "")
        => /\ result.out.path \in {"invalid", "single", "fit"}
           /\ Len(result.out.est_dcm) = Len(call.target_depths)
           /\ Len(result.out.names_dcm) = Len(call.target_depths)
           /\ \A j \in 1..Len(call.target_depths) :
                 result.out.names_dcm[j]
                    = IntervalName(call.target_depths[j][1], call.target_depths[j][2])
           /\ result.out.path = "fit"
                 => \A j \in 1..Len(call.target_depths) :
                       result.out.est_dcm[j]
                          = Aggregate(result.out.est_1cm, Len(result.out.est_1cm),
                                      call.target_depths[j][1], call.target_depths[j][2])
           /\ call.target_depths = <<<<0, 10>>, <<10, 30>>, <<30, 50>>>>
                 => /\ Len(result.out.est_dcm) = 3
                    /\ result.out.names_dcm[1] = <<"0", "0", "0", "_", "0", "1", "0", "_", "c", "m">>

\* C6 witness: the two-interval profile over 0-50 cm fitted for the three
\* targets, every one with a value.
C6_Witness ==
    /\ call.op = "spline_one" /\ result.state = "returned" /\ result.raised = ""
    /\ call.df = <<Row(Num(0), Num(20), Frac(49, 2)), Row(Num(20), Num(50), Frac(176, 5))>>
    /\ call.target_depths = ScenarioDTargets
    /\ result.out.path = "fit"
    /\ Len(result.out.est_dcm) = 3
    /\ \A j \in 1..3 : ~isnan(result.out.est_dcm[j])

\* The intervals of the profile of a spline_one call: its rows after cleaning.
Cleaned == _validate_and_prepare_data(call.df)

\* The target intervals of the call that lie entirely beyond the profile, whose
\* deepest lower boundary is that of the last cleaned row.
Beyond ==
    {j \in 1..Len(call.target_depths) :
        RLe(MaxOf([i \in 1..Len(Cleaned.rows) |-> Cleaned.rows[i].LD]),
            Num(call.target_depths[j][1]))}

\* C7 (as stated; refuted): a target interval entirely beyond the profile's
\* maximum depth has a NaN aggregate in what spline_one returns.
C7_BeyondDepthIsNaN ==
    (/\ call.op = "spline_one" /\ result.state = "returned" /\ result.raised = ""
     /\ ~Cleaned.none /\ Len(Cleaned.rows) >= 1)
        => \A j \in Beyond : isnan(result.out.est_dcm[j])

\* C7 (amended): for a fitted profile (two or more intervals after cleaning) a
\* target interval entirely beyond the maximum depth has a NaN aggregate, and
\* the continuous estimate holds no value at or beyond that depth.
C7_FittedBeyondDepthIsNaN ==
    (/\ call.op = "spline_one" /\ result.state = "returned" /\ result.raised = ""
     /\ ~Cleaned.none /\ Len(Cleaned.rows) >= 2)
        => /\ result.out.path = "fit"
           /\ \A j \in Beyond : isnan(result.out.est_dcm[j])
           /\ \A d \in 0..(Len(result.out.est_1cm) - 1) :
                 RLe(MaxOf([i \in 1..Len(Cleaned.rows) |-> Cleaned.rows[i].LD]), Num(d))
                    => isnan(result.out.est_1cm[d + 1])

\* C7 witness: a fitted profile with a target beyond its depth (NaN) and a
\* target within it (a value).
C7_Witness ==
    /\ call.op = "spline_one" /\ result.state = "returned" /\ result.raised = ""
    /\ result.out.path = "fit"
    /\ \E j \in Beyond : isnan(result.out.est_dcm[j])
    /\ \E j \in 1..Len(call.target_depths) : j \notin Beyond /\ ~isnan(result.out.est_dcm[j])

\* C8 (as stated, read on the defined values; refuted): every defined value of
\* the continuous estimate spline_one returns lies within [vlow, vhigh].
C8_Clipped ==
    (/\ call.op = "spline_one" /\ result.state = "returned" /\ result.raised = ""
     /\ IsFinite(call.vlow) /\ IsFinite(call.vhigh) /\ RLe(call.vlow, call.vhigh))
        => \A i \in 1..Len(result.out.est_1cm) :
              \/ isnan(result.out.est_1cm[i])
              \/ RLe(call.vlow, result.out.est_1cm[i]) /\ RLe(result.out.est_1cm[i], call.vhigh)

\* C9: when every value of the property is NaN, spline_one returns (raising
\* nothing) NaN for every target interval, and NaN for rmse and rmse_iqr.
C9_AllNaNGivesNaN ==
    (/\ call.op = "spline_one" /\ result.state = "returned"
     /\ \A i \in 1..Len(call.df) : isnan(call.df[i].v))
        => /\ result.raised = ""
           /\ Len(result.out.est_dcm) = Len(call.target_depths)
           /\ \A j \in 1..Len(result.out.est_dcm) : isnan(result.out.est_dcm[j])
           /\ isnan(result.out.rmse) /\ isnan(result.out.rmse_iqr)

\* C9 witness: a two-interval profile with both values NaN has been answered
\* for the default targets.
C9_Witness ==
    /\ call.op = "spline_one" /\ result.state = "returned"
    /\ Len(call.df) = 2 /\ isnan(call.df[1].v) /\ isnan(call.df[2].v)
    /\ RLt(call.df[1].UD, call.df[1].LD) /\ call.df[1].LD = call.df[2].UD
    /\ RLt(call.df[2].UD, call.df[2].LD)
    /\ call.target_depths = GLOBALSM_DEPTHS
    /\ \A j \in 1..Len(result.out.est_dcm) : isnan(result.out.est_dcm[j])

\* C10 (as stated; refuted): a profile of exactly one measured interval gets
\* its value for every target interval, with zero fit error.
C10_SingleIntervalBroadcast ==
    (/\ call.op = "spline_one" /\ result.state = "returned"
     /\ Len(call.df) = 1 /\ ~isnan(call.df[1].v) /\ call.target_depths # <<>>
     /\ RLe(Zero, call.df[1].UD) /\ RLt(call.df[1].UD, call.df[1].LD))
        => /\ result.raised = ""
           /\ \A j \in 1..Len(call.target_depths) : result.out.est_dcm[j] = call.df[1].v
           /\ result.out.rmse = Zero /\ result.out.rmse_iqr = Zero


-----------------------------------------------------------------------------
(* Fit-quality properties (run under SpecFit).                             *)

\* The observed values the fit quality of the call in progress is about: the
\* values kept by _calculate_rmse, or the values of the cleaned rows.
ObservedOf ==
    IF call.op = "_calculate_rmse"
    THEN SelectSeq([i \in 1..Len(call.values) |->
                       IF isnan(call.fitted[i]) THEN NaN ELSE call.values[i]],
                   LAMBDA x : ~isnan(x))
    ELSE [i \in 1..Len(Cleaned.rows) |-> Cleaned.rows[i].v]

\* The interquartile range of the observed values is zero: the value a
\* quarter of the way up the sorted values is the one three quarters up.
ZeroIqr ==
    /\ ObservedOf # <<>>
    /\ Percentile(ObservedOf, 75) = Percentile(ObservedOf, 25)

\* C11 (as stated; refuted): whenever the interquartile range of the observed
\* values is zero, the rmse_iqr of _calculate_rmse and of spline_one is NaN.
C11_ZeroIqrGivesNaN ==
    (/\ call.op \in {"_calculate_rmse", "spline_one"}
     /\ result.state = "returned" /\ result.raised = ""
     /\ (call.op = "spline_one" => ~Cleaned.none)
     /\ ZeroIqr)
        => isnan(result.out.rmse_iqr)

\* C11 (amended): whenever the interquartile range of the observed values is
\* zero, the rmse_iqr of _calculate_rmse and of a fitted spline_one profile
\* is NaN; a profile reduced to a single interval reports 0.0 for both
\* scalars.
C11_FittedZeroIqrGivesNaN ==
    (/\ call.op \in {"_calculate_rmse", "spline_one"}
     /\ result.state = "returned" /\ result.raised = ""
     /\ (call.op = "spline_one" => ~Cleaned.none)
     /\ ZeroIqr)
        => IF call.op = "spline_one" /\ Len(Cleaned.rows) = 1
           THEN result.out.rmse_iqr = Zero /\ result.out.rmse = Zero
           ELSE isnan(result.out.rmse_iqr)

\* C11 witness: observed values that differ, with coinciding quartiles and a
\* fit error above zero, reported with rmse_iqr NaN.
C11_Witness ==
    /\ call.op = "_calculate_rmse" /\ result.state = "returned"
    /\ ZeroIqr
    /\ \E i, j \in 1..Len(ObservedOf) : ObservedOf[i] # ObservedOf[j]
    /\ RLt(Zero, result.out.rmse)
    /\ isnan(result.out.rmse_iqr)

\* A fitted profile whose observed values are identical, rmse_iqr NaN.
C11_FittedWitness ==
    /\ call.op = "spline_one" /\ result.state = "returned" /\ result.raised = ""
    /\ result.out.path = "fit" /\ ZeroIqr
    /\ isnan(result.out.rmse_iqr)

-----------------------------------------------------------------------------
(* Prediction properties (run under SpecFit).                              *)

\* The deepest lower boundary of the cleaned profile of a spline_one call.
DeepestLower == MaxOf([i \in 1..Len(Cleaned.rows) |-> Cleaned.rows[i].LD])

\* C12 (as stated; refuted): the continuous estimate of a fitted profile has
\* one entry per unit depth below the deepest lower boundary, so its length is
\* that boundary.
C12_LengthIsDeepestLower ==
    (/\ call.op = "spline_one" /\ result.state = "returned" /\ result.raised = ""
     /\ result.out.path = "fit")
        => Len(result.out.est_1cm) = IntOf(DeepestLower)

\* What the code does instead: one entry more, the last one never defined.
LengthIsDeepestLowerPlusOne ==
    (/\ call.op = "spline_one" /\ result.state = "returned" /\ result.raised = ""
     /\ result.out.path = "fit")
        => /\ Len(result.out.est_1cm) = IntOf(DeepestLower) + 1
           /\ isnan(result.out.est_1cm[IntOf(DeepestLower) + 1])

\* The measured intervals holding depth d, and the intervals followed by a
\* gap holding d, for the parameters of a prediction call.
IntervalsAt(params, d) ==
    {i \in 1..Len(params.depths_top) :
        RLe(params.depths_top[i], Num(d)) /\ RLt(Num(d), params.depths_bottom[i])}

GapsAt(params, d) ==
    {p \in 1..(Len(params.depths_top) - 1) :
        RLe(params.depths_bottom[p], Num(d)) /\ RLt(Num(d), params.depths_top[p + 1])}

\* The quadratic of interval i at depth d, and the line through the gap
\* after interval p.
InsideValue(params, i, d) ==
    RAdd(RAdd(params.alfa[i], RMul(params.b0[i], RSub(Num(d), params.depths_top[i]))),
         RMul(params.gamma[i], RMul(RSub(Num(d), params.depths_top[i]),
                                    RSub(Num(d), params.depths_top[i]))))

GapValue(params, p, d) ==
    RAdd(RSub(params.alfa[p + 1],
              RMul(params.b1[p], RSub(params.depths_top[p + 1], params.depths_bottom[p]))),
         RMul(params.b1[p], RSub(Num(d), params.depths_bottom[p])))

\* What entry d of the continuous estimate must be, before clipping.
CaseValue(params, d) ==
    IF IntervalsAt(params, d) # {}
    THEN InsideValue(params, CHOOSE i \in IntervalsAt(params, d) : TRUE, d)
    ELSE IF GapsAt(params, d) # {}
    THEN GapValue(params, CHOOSE p \in GapsAt(params, d) : TRUE, d)
    ELSE NaN

\* C13: for each unit depth d in [0, max_depth) exactly one case applies: d
\* inside interval i gives alfa_i + b0_i*(d-upper_i) + gamma_i*(d-upper_i)^2,
\* d in the gap between intervals p and p+1 gives phi + b1_p*(d-lower_p) with
\* phi = alfa_{p+1} - b1_p*(upper_{p+1} - lower_p), every other depth is NaN;
\* the entry returned is that value brought into [vlow, vhigh].
C13_OneCasePerDepth ==
    (call.op = "_fit_spline_predictions" /\ result.state = "returned")
        => /\ Len(result.out.est_1cm) = call.max_depth
           /\ \A d \in 0..(call.max_depth - 1) :
                /\ Cardinality(IntervalsAt(call.params, d)) + Cardinality(GapsAt(call.params, d)) <= 1
                /\ result.out.est_1cm[d + 1] =
                      Clip(CaseValue(call.params, d), call.vlow, call.vhigh)
                /\ (IntervalsAt(call.params, d) = {} /\ GapsAt(call.params, d) = {})
                      => isnan(result.out.est_1cm[d + 1])

\* C13 witness: one call whose depths show all the cases, unclipped: a depth
\* above the first interval, one inside an interval, one in a gap, and the
\* deepest lower boundary.
C13_Witness ==
    /\ call.op = "_fit_spline_predictions" /\ result.state = "returned"
    /\ call.vlow = WideClip[1]
    /\ \E d \in 0..(call.max_depth - 1) :
          /\ IntervalsAt(call.params, d) # {}
          /\ result.out.est_1cm[d + 1] = CaseValue(call.params, d)
          /\ ~isnan(result.out.est_1cm[d + 1])
    /\ \E d \in 0..(call.max_depth - 1) :
          /\ GapsAt(call.params, d) # {}
          /\ result.out.est_1cm[d + 1] = CaseValue(call.params, d)
          /\ ~isnan(result.out.est_1cm[d + 1])
    /\ \E d \in 0..(call.max_depth - 1) :
          /\ RLt(Num(d), call.params.depths_top[1])
          /\ isnan(result.out.est_1cm[d + 1])
    /\ \E d \in 0..(call.max_depth - 1) :
          /\ Num(d) = call.params.depths_bottom[Len(call.params.depths_bottom)]
          /\ isnan(result.out.est_1cm[d + 1])

\* The depths of target window j that hold a defined continuous value: those
\* in [top, min(bottom, max_depth)), max_depth being the length of est_1cm.
DefinedDepths(out, target) ==
    {d \in 0..(Len(out.est_1cm) - 1) :
        target[1] <= d /\ d < target[2] /\ ~isnan(out.est_1cm[d + 1])}

RECURSIVE SumAt(_, _)
SumAt(est_1cm, depths) ==
    IF depths = {} THEN Zero
    ELSE LET d == CHOOSE x \in depths : TRUE
         IN  RAdd(est_1cm[d + 1], SumAt(est_1cm, depths \ {d}))

\* C14: the aggregate of each target interval is the arithmetic mean of the
\* defined continuous values at the depths in [top, min(bottom, max_depth)),
\* and it is NaN exactly when there is no such value (top >= max_depth, an
\* empty slice, or a slice of undefined values only).
C14_MeanOfDefined ==
    (/\ call.op \in {"_fit_spline_predictions", "spline_one"}
     /\ result.state = "returned" /\ result.raised = ""
     /\ (call.op = "spline_one" => result.out.path = "fit"))
        => \A j \in 1..Len(call.target_depths) :
              LET D == DefinedDepths(result.out, call.target_depths[j])
              IN  /\ isnan(result.out.est_dcm[j]) <=> (D = {})
                  /\ D # {} => result.out.est_dcm[j] =
                                  RDiv(SumAt(result.out.est_1cm, D), Num(Cardinality(D)))

\* C14 witness: one result with a window averaged over defined and undefined
\* depths, a window wholly beyond max_depth, an empty window, and a window of
\* two or more defined values that differ.
C14_Witness ==
    /\ call.op = "_fit_spline_predictions" /\ result.state = "returned"
    /\ \E j \in 1..Len(call.target_depths) :
          LET t == call.target_depths[j]
              D == DefinedDepths(result.out, t)
          IN  /\ D # {} /\ ~isnan(result.out.est_dcm[j])
              /\ \E d \in t[1]..(t[2] - 1) :
                    d < call.max_depth /\ isnan(result.out.est_1cm[d + 1])
    /\ \E j \in 1..Len(call.target_depths) :
          call.target_depths[j][1] >= call.max_depth /\ isnan(result.out.est_dcm[j])
    /\ \E j \in 1..Len(call.target_depths) :
          /\ call.target_depths[j][1] < call.max_depth
          /\ call.target_depths[j][1] >= call.target_depths[j][2]
          /\ isnan(result.out.est_dcm[j])
    /\ \E j \in 1..Len(call.target_depths) :
          LET D == DefinedDepths(result.out, call.target_depths[j])
          IN  \E d1, d2 \in D : result.out.est_1cm[d1 + 1] # result.out.est_1cm[d2 + 1]

-----------------------------------------------------------------------------
(* Batch properties of mpspline (run under Spec).                          *)

\* The component identifier a row of the output carries: the cokey of the
\* metadata copied into it.
RowKey(row) == DictGet(row, Chars("cokey"))

\* Two rows of one component with the same cell under every column,
\* whatever the order of the columns.
SameCells(row1, row2) ==
    /\ RowKey(row1) = RowKey(row2)
    /\ Len(row1.items) = Len(row2.items)
    /\ \A i \in 1..Len(row1.items) :
          /\ DictHas(row2, row1.items[i][1])
          /\ DictGet(row2, row1.items[i][1]) = row1.items[i][2]

\* Two DataFrames with the same rows, whatever the order of the columns.
SameRows(rows1, rows2) ==
    /\ Len(rows1) = Len(rows2)
    /\ \A i \in 1..Len(rows1) : SameCells(rows1[i], rows2[i])

\* The rows in ascending order of their component identifier, rows of one
\* component kept in their order.
RECURSIVE InsertByKey(_, _)
InsertByKey(row, sorted) ==
    IF sorted = <<>> THEN <<row>>
    ELSE IF RowKey(row) < RowKey(sorted[1]) THEN <<row>> \o sorted
    ELSE <<sorted[1]>> \o InsertByKey(row, Tail(sorted))

RECURSIVE OrderedByKey(_)
OrderedByKey(rows) ==
    IF rows = <<>> THEN <<>>
    ELSE InsertByKey(rows[Len(rows)], OrderedByKey(SubSeq(rows, 1, Len(rows) - 1)))

\* How often x occurs in a list.
Count(list, x) == Cardinality({i \in 1..Len(list) : list[i] = x})

SameBag(l1, l2) ==
    /\ Len(l1) = Len(l2)
    /\ \A i \in 1..Len(l1) : Count(l1, l1[i]) = Count(l2, l1[i])

\* The two outputs taken as they stand: where the sequential path returns,
\* the outputs ordered by component identifier are equal, the order of their
\* columns included.
ParallelSameWithColumnOrder ==
    (call.op = "mpspline:parallel" /\ result.state = "returned")
        => LET seq == mpspline(EmptyCache, call.obj, call.args)
           IN  seq.raised = ""
                  => /\ result.raised = ""
                     /\ SameBag(result.harmonized, seq.harmonized)
                     /\ OrderedByKey(result.rows) = OrderedByKey(seq.rows)

\* C15: for a list on which the sequential path returns, the parallel path
\* returns too, in whatever order the workers complete, and with the same
\* results: none lost, none doubled, each with the metadata of its own
\* component, so that ordered by component identifier the two outputs have
\* the same rows, each with the same cell under every column.
C15_ParallelSameAsSequential ==
    (call.op = "mpspline:parallel" /\ result.state = "returned")
        => LET seq == mpspline(EmptyCache, call.obj, call.args)
           IN  seq.raised = ""
                  => /\ result.raised = ""
                     /\ SameBag(result.harmonized, seq.harmonized)
                     /\ SameRows(OrderedByKey(result.rows), OrderedByKey(seq.rows))

\* What holds: over the lists whose components can all be pickled, the
\* parallel path raises exactly when the sequential path raises and
\* otherwise returns the same results and the same rows.
PicklableParallelSame ==
    (/\ call.op = "mpspline:parallel" /\ result.state = "returned"
     /\ \A i \in 1..Len(call.obj) : Picklable(call.obj[i]))
        => LET seq == mpspline(EmptyCache, call.obj, call.args)
           IN  IF seq.raised # "" THEN result.raised # ""
               ELSE /\ result.raised = ""
                    /\ SameBag(result.harmonized, seq.harmonized)
                    /\ SameRows(OrderedByKey(result.rows), OrderedByKey(seq.rows))

\* A list with a component that cannot be pickled between two that are
\* fitted, harmonized without strict: the sequential path skips the component
\* and returns the rows of the other two, the parallel call has raised
\* TypeError.
UnpicklableAbortsParallel ==
    /\ call.op = "mpspline:parallel" /\ result.state = "returned" /\ ~call.args.strict
    /\ call.obj = <<CompA, CompProxy, CompGap>>
    /\ call.args.output_type = "wide"
    /\ result.raised = "TypeError"
    /\ With(mpspline(EmptyCache, call.obj, call.args), LAMBDA seq :
            /\ seq.raised = ""
            /\ Len(seq.rows) = 2
            /\ RowKey(seq.rows[1]) = RowKey(CompA)
            /\ RowKey(seq.rows[2]) = RowKey(CompGap))

\* A parallel call has returned the results of two components with different
\* columns in the order opposite to the list's: the rows are those of the
\* sequential path, the columns come in another order.
ParallelColumnsReordered ==
    /\ call.op = "mpspline:parallel" /\ result.state = "returned" /\ result.raised = ""
    /\ call.obj = <<CompHalf, CompA>>
    /\ call.args.output_type = "wide"
    /\ Len(result.rows) = 2
    /\ RowKey(result.rows[1]) = RowKey(CompA)
    /\ RowKey(result.rows[2]) = RowKey(CompHalf)
    /\ With(mpspline(EmptyCache, call.obj, call.args).rows, LAMBDA rows :
            /\ SameRows(OrderedByKey(result.rows), OrderedByKey(rows))
            /\ OrderedByKey(result.rows) # OrderedByKey(rows))

\* A parallel call has returned the results of two fitted components in the
\* order opposite to the list's, the component between them, whose
\* harmonization raises, having been skipped.
ParallelOutOfOrder ==
    /\ call.op = "mpspline:parallel" /\ result.state = "returned" /\ result.raised = ""
    /\ call.obj = <<CompA, CompNoHorizons, CompGap>>
    /\ call.args.output_type = "wide"
    /\ Len(result.rows) = 2
    /\ RowKey(result.rows[1]) = RowKey(CompGap)
    /\ RowKey(result.rows[2]) = RowKey(CompA)
    /\ result.rows # mpspline(EmptyCache, call.obj, call.args).rows

\* The harmonization of component c fails under the arguments of the call:
\* it is malformed, or its horizon sequence is invalid.
Fails(c, args) ==
    \/ mpspline_one(EmptyCache, c, args).raised # ""
    \/ HorizonSequence(HorizonsOf(c), args.strict).raised # ""

\* The rows the output holds for component c.
RowsOf(rows, c) == SelectSeq(rows, LAMBDA row : RowKey(row) = RowKey(c))

\* The row has the cells of the row `alone`, and NaN under every other column.
SameButFilled(row, alone) ==
    /\ \A i \in 1..Len(alone.items) :
          /\ DictHas(row, alone.items[i][1])
          /\ DictGet(row, alone.items[i][1]) = alone.items[i][2]
    /\ \A i \in 1..Len(row.items) :
          ~DictHas(alone, row.items[i][1]) => row.items[i][2] = NaN

\* What component c contributes when harmonized alone.
AloneRows(c, args) ==
    DataFrameRows(<<mpspline_one(EmptyCache, c, args).ret>>, args.output_type)

\* A bulk call has returned: with strict any failing component made it
\* raise; without strict it raised nothing, a failing component has no row in
\* the output and every other component has its rows, with NaN under the
\* columns that other components brought.
FailedSkipped ==
    LET failing == {i \in 1..Len(call.obj) : Fails(call.obj[i], call.args)}
    IN  IF call.args.strict
        THEN (failing # {}) <=> (result.raised # "")
        ELSE /\ result.raised = ""
             /\ \A i \in 1..Len(call.obj) :
                   IF i \in failing THEN RowsOf(result.rows, call.obj[i]) = <<>>
                   ELSE With(RowsOf(result.rows, call.obj[i]), LAMBDA rows :
                        With(AloneRows(call.obj[i], call.args), LAMBDA alone :
                           /\ Len(rows) = Len(alone)
                           /\ \A k \in 1..Len(rows) : SameButFilled(rows[k], alone[k])))

\* C16 (as stated; refuted): in bulk mpspline without strict every component
\* whose harmonization fails is skipped and every other one is in the output;
\* with strict the failure is raised; on the sequential and the parallel path
\* and for both output types.
C16_FailedSkipped ==
    (call.op \in {"mpspline", "mpspline:parallel"} /\ result.state = "returned")
        => FailedSkipped

\* The same for the long form alone, over the lists whose components all
\* have a get method and, on the parallel path, can all be pickled.
FailedSkippedInLongForm ==
    (/\ call.op \in {"mpspline", "mpspline:parallel"} /\ result.state = "returned"
     /\ call.args.output_type = "long"
     /\ \A i \in 1..Len(call.obj) : ~HasNoGet(call.obj[i])
     /\ call.op = "mpspline:parallel" => \A i \in 1..Len(call.obj) : Picklable(call.obj[i]))
        => FailedSkipped

\* A component without a get method is not skipped: without strict the call
\* raises AttributeError, on the sequential and on the parallel path.
NotDictRaisesOnBothPaths ==
    (/\ call.op \in {"mpspline", "mpspline:parallel"} /\ result.state = "returned"
     /\ ~call.args.strict
     /\ \E i \in 1..Len(call.obj) : HasNoGet(call.obj[i]))
        => result.raised = "AttributeError"

NotDictInParallelReached ==
    /\ call.op = "mpspline:parallel" /\ result.state = "returned" /\ ~call.args.strict
    /\ call.obj = <<CompA, CompNotDict, CompGap>>
    /\ result.raised = "AttributeError"

\* A mapping that is no dict is refused by mpspline_one with TypeError while
\* its get method serves the log line of the handler (lines 245-246 and
\* 533): without strict the component is skipped, with strict the call raises.
MappingSkipped ==
    (/\ call.op \in {"mpspline", "mpspline:parallel"} /\ result.state = "returned"
     /\ call.obj = <<CompUserDict, CompA>>)
        => IF call.args.strict THEN result.raised = "TypeError"
           ELSE /\ result.raised = ""
                /\ \A k \in 1..Len(result.rows) : RowKey(result.rows[k]) = RowKey(CompA)

MappingSkippedReached ==
    /\ call.op = "mpspline" /\ result.state = "returned" /\ ~call.args.strict
    /\ call.obj = <<CompUserDict, CompA>> /\ call.args.output_type = "wide"
    /\ result.raised = ""
    /\ Len(result.rows) = 1 /\ RowKey(result.rows[1]) = RowKey(CompA)

\* The DataFrame has one row per result over the columns of all results, NaN
\* where a result has no such key (lines 486 and 489): next to a component
\* with sand, the row of a component without it has NaN under the columns of
\* sand.
FrameFillsAbsentCells ==
    /\ call.op = "mpspline" /\ result.state = "returned" /\ result.raised = ""
    /\ call.obj = <<CompHalf, CompA>> /\ call.args.output_type = "wide"
    /\ Len(result.rows) = 2
    /\ RowKey(result.rows[2]) = RowKey(CompA)
    /\ Len(result.rows[2].items) > Len(AloneRows(CompA, call.args)[1].items)
    /\ SameButFilled(result.rows[2], AloneRows(CompA, call.args)[1])
    /\ [i \in 1..Len(result.rows[1].items) |-> result.rows[1].items[i][1]]
          = [i \in 1..Len(result.rows[2].items) |-> result.rows[2].items[i][1]]

\* In the wide form a component with an invalid sequence comes back as it
\* was given (lines 258-264) and its row holds its 'horizons' list, the rows
\* of the fitted components NaN under that column.
FrameKeepsGivenComponent ==
    /\ call.op = "mpspline" /\ result.state = "returned" /\ result.raised = ""
    /\ call.obj = <<CompA, CompInverted, CompGap>> /\ call.args.output_type = "wide"
    /\ Len(result.rows) = 3
    /\ DictGet(result.rows[1], Chars("horizons")) = NaN
    /\ DictGet(result.rows[3], Chars("horizons")) = NaN
    /\ SameButFilled(result.rows[2], CompInverted)
    /\ Len(result.rows[2].items) > Len(CompInverted.items)

\* mpspline on an object that is neither a dict nor a list raises TypeError
\* (lines 443-444).
ObjectRefused ==
    (call.op = "mpspline:object" /\ result.state = "returned")
        => IF call.component_data.pytype = "dict"
           THEN result = With(mpspline_one(EmptyCache, call.component_data, call.args),
                              LAMBDA r : IF r.raised # ""
                                         THEN [state |-> "returned", raised |-> r.raised]
                                         ELSE [state |-> "returned", raised |-> "",
                                               ret |-> r.ret])
           ELSE result.raised = "TypeError"

ObjectRefusedReached ==
    /\ call.op = "mpspline:object" /\ result.state = "returned"
    /\ call.component_data.pytype = "str"
    /\ result.raised = "TypeError"


(***************************************************************************)
(* Invalid horizon sequences in mpspline_one                               *)
(***************************************************************************)

\* The component of the call is a dict with a non-empty 'horizons' whose
\* validation reports is_valid = False (lines 255-256, HorizonSequence 79-81).
InvalidSequenceCall ==
    /\ call.op = "mpspline_one" /\ result.state = "returned"
    /\ HasHorizons(call.component_data)
    /\ With(validate_horizon_sequence(HorizonsOf(call.component_data), call.args.strict,
                                      SomeCPython),
            LAMBDA v : v.raised = "" /\ ~v.is_valid)

\* C17: for an invalid horizon sequence mpspline_one raises
\* ValueError in strict mode, and without strict returns the component data
\* it was given, 'horizons' included.
C17_InvalidReturnsComponent ==
    InvalidSequenceCall =>
        IF call.args.strict THEN result.raised = "ValueError"
        ELSE /\ result.raised = ""
             /\ result.ret = call.component_data

\* What the code does: for an invalid horizon sequence mpspline_one raises
\* ValueError in strict mode; without strict it returns the component data
\* it was given, 'horizons' included, only when output_type is 'wide', and
\* the empty list when output_type is 'long', the default.
InvalidReturnsComponentOrEmpty ==
    InvalidSequenceCall =>
        IF call.args.strict THEN result.raised = "ValueError"
        ELSE /\ result.raised = ""
             /\ result.ret = IF call.args.output_type = "long" THEN <<>>
                             ELSE call.component_data
             /\ call.args.output_type # "long" => DictHas(result.ret, Chars("horizons"))

InvalidWideReached ==
    /\ InvalidSequenceCall /\ ~call.args.strict /\ call.args.output_type = "wide"
    /\ result.raised = "" /\ result.ret = CompInverted
    /\ HorizonsOf(result.ret) = HorizonsOf(CompInverted)


(***************************************************************************)
(* The result of a call with default arguments                             *)
(***************************************************************************)

\* A call of mpspline_one, or of mpspline on one dict, whose component has a
\* valid horizon sequence.
ValidSingleCall ==
    /\ call.op \in {"mpspline_one", "mpspline:object"} /\ result.state = "returned"
    /\ HasHorizons(call.component_data)
    /\ HorizonSequence(HorizonsOf(call.component_data), call.args.strict).raised = ""

\* The keys '<property>_<top>_<bottom>' of the given properties and intervals.
ExpectedKeys(properties, target_depths) ==
    {Chars(properties[i]) \o <<"_">> \o IntStr(target_depths[j][1]) \o <<"_">>
        \o IntStr(target_depths[j][2]) :
        i \in 1..Len(properties), j \in 1..Len(target_depths)}

\* The keys of a dict.
Keys(d) == {d.items[i][1] : i \in 1..Len(d.items)}

\* Every item of the metadata of the component is an item of d.
KeepsMetadata(d, component_data) ==
    \A i \in 1..Len(Metadata(component_data).items) :
        /\ DictHas(d, Metadata(component_data).items[i][1])
        /\ DictGet(d, Metadata(component_data).items[i][1])
              = Metadata(component_data).items[i][2]

\* ret is one dict with the non-horizon fields of the component, no
\* 'horizons' key, and one key per processed property and target interval.
OneDictOf(ret, component_data, args) ==
    /\ DOMAIN ret = {"pytype", "items"}
    /\ ret.pytype = "dict"
    /\ KeepsMetadata(ret, component_data)
    /\ ~DictHas(ret, Chars("horizons"))
    /\ With(PropertiesToProcess(args.var_name, Properties(HorizonsOf(component_data))),
            LAMBDA todo :
               /\ Keys(ret) \ Keys(Metadata(component_data))
                    = ExpectedKeys(todo, args.target_depths)
               /\ Len(ret.items)
                    = Len(Metadata(component_data).items)
                        + Len(todo) * Len(args.target_depths))

\* C18: called with default arguments on a valid component, mpspline_one
\* (and mpspline on a single dict) returns one dict that has every
\* non-horizon field of the component unchanged, no 'horizons' key, and one
\* key '<property>_<top>_<bottom>' per processed property and target interval.
C18_DefaultCallGivesOneDict ==
    (ValidSingleCall /\ call.args = DefaultArgs)
        => /\ result.raised = ""
           /\ OneDictOf(result.ret, call.component_data, call.args)

\* What the defaults give instead is the list of long-form records.
DefaultCallGivesRecords ==
    (ValidSingleCall /\ call.args = DefaultArgs /\ call.component_data \in {CompA, CompBoth})
        => /\ result.raised = ""
           /\ Len(result.ret)
                = Len(Properties(HorizonsOf(call.component_data))) * Len(GLOBALSM_DEPTHS)
           /\ \A k \in 1..Len(result.ret) :
                 /\ KeepsMetadata(result.ret[k], call.component_data)
                 /\ Keys(result.ret[k]) \ Keys(Metadata(call.component_data))
                       = {Chars("var_name"), Chars("upper"), Chars("lower"), Chars("value")}

\* The dict of the stated shape is what output_type = 'wide' gives.
WideCallGivesOneDict ==
    (/\ ValidSingleCall /\ call.args = [DefaultArgs EXCEPT !.output_type = "wide"]
     /\ call.component_data \in {CompA, CompBoth})
        => /\ result.raised = ""
           /\ OneDictOf(result.ret, call.component_data, call.args)

WideCallReached ==
    /\ ValidSingleCall /\ call.op = "mpspline:object"
    /\ call.args = [DefaultArgs EXCEPT !.output_type = "wide"]
    /\ call.component_data = CompBoth
    /\ Len(result.ret.items) = 1 + 2 * Len(GLOBALSM_DEPTHS)

\* A metadata field named like a column of the wide form does not keep its
\* value: the assignment of the column replaces it where it is (lines
\* 307-323).  In mode dcm both interval columns of the metadata are replaced
\* and the others kept; every other column comes behind the metadata.
ColumnReplacesField ==
    /\ call.op = "mpspline_one" /\ result.state = "returned" /\ result.raised = ""
    /\ call.component_data = CompColumn
    /\ call.args.output_type = "wide" /\ call.args.mode = "dcm"
    /\ call.args.target_depths = GridTargets
    /\ [i \in 1..Len(result.ret.items) |-> result.ret.items[i][1]]
          = [i \in 1..Len(Metadata(CompColumn).items) |-> Metadata(CompColumn).items[i][1]]
              \o << <<"c", "l", "a", "y", "_", "2", "_", "2">>,
                    <<"c", "l", "a", "y", "_", "3", "_", "5">> >>
    /\ \A i \in 1..Len(Metadata(CompColumn).items) :
          (result.ret.items[i] = Metadata(CompColumn).items[i])
              <=> i \notin {2, 4}

\* The same in mode 1cm, where the columns of the two depths are replaced.
DepthColumnReplacesField ==
    /\ call.op = "mpspline_one" /\ result.state = "returned" /\ result.raised = ""
    /\ call.component_data = CompColumn
    /\ call.args.output_type = "wide" /\ call.args.mode = "1cm"
    /\ \A i \in 1..Len(Metadata(CompColumn).items) :
          /\ result.ret.items[i][1] = Metadata(CompColumn).items[i][1]
          /\ (result.ret.items[i] = Metadata(CompColumn).items[i]) <=> i \notin {3, 5}

\* Metadata fields named 'upper' and 'value' are replaced in every long-form
\* record by the record's own (lines 343-347); 'depth' is kept in mode dcm.
RecordReplacesField ==
    /\ call.op = "mpspline_one" /\ result.state = "returned" /\ result.raised = ""
    /\ call.component_data = CompValue
    /\ call.args.output_type = "long" /\ call.args.mode = "dcm"
    /\ result.ret # <<>>
    /\ \A k \in 1..Len(result.ret) :
          /\ [i \in 1..Len(result.ret[k].items) |-> result.ret[k].items[i][1]]
                = <<Chars("cokey"), Chars("value"), Chars("upper"), Chars("depth"),
                    Chars("var_name"), Chars("lower")>>
          /\ DictGet(result.ret[k], Chars("depth")) = DictGet(CompValue, Chars("depth"))
          /\ DictGet(result.ret[k], Chars("upper")) = call.args.target_depths[k][1]


(***************************************************************************)
(* Malformed components                                                    *)
(***************************************************************************)

\* The exception lines 245-253 raise for component_data, "" when they raise
\* none.
Rejection(component_data) ==
    IF component_data.pytype # "dict" THEN "TypeError"
    ELSE IF ~DictHas(component_data, Chars("horizons")) THEN "ValueError"
    ELSE IF HorizonsOf(component_data) = <<>> THEN "ValueError"
    ELSE ""

\* C19: mpspline_one rejects a malformed component before any processing,
\* whatever the strict flag: a non-dict raises TypeError, a dict without a
\* 'horizons' key raises ValueError, an empty horizons list raises
\* ValueError, and the call leaves the matrix cache as it was.
C19_MalformedRejected ==
    [][(call.op = "mpspline_one" /\ result = Pending /\ Rejection(call.component_data) # "")
          => /\ result'.state = "returned"
             /\ result'.raised = Rejection(call.component_data)
             /\ _MATRIX_CACHE' = _MATRIX_CACHE]_vars

C19_Witness ==
    /\ call.op = "mpspline_one" /\ result.state = "returned"
    /\ call.component_data = CompNoHorizons /\ ~call.args.strict
    /\ result.raised = "ValueError"

\* The other two kinds of malformed component are rejected in the runs too.
C19_NotDictReached ==
    /\ call.op = "mpspline_one" /\ result.state = "returned"
    /\ call.component_data = CompNotDict /\ ~call.args.strict
    /\ result.raised = "TypeError"

C19_NoKeyReached ==
    /\ call.op = "mpspline_one" /\ result.state = "returned"
    /\ call.component_data = CompNoKey /\ ~call.args.strict
    /\ result.raised = "ValueError"


(***************************************************************************)
(* The properties in the output of mpspline_one                            *)
(***************************************************************************)

\* The properties var_name asks for among the numeric properties `existing`
\* (None asks for all of them).
Requested(var_name, existing) ==
    IF var_name.kind = "none" THEN existing
    ELSE IF var_name.kind = "str" THEN {var_name.name}
    ELSE {var_name.names[i] : i \in 1..Len(var_name.names)}

Existing(component_data) ==
    {Properties(HorizonsOf(component_data))[i] :
        i \in 1..Len(Properties(HorizonsOf(component_data)))}

\* The properties that have a record (long form) or a column (wide form) in
\* ret; an item that ret has from the metadata of the component is no column.
OutputProps(ret, component_data, output_type) ==
    IF output_type = "long" THEN {DictGet(ret[k], Chars("var_name")) : k \in 1..Len(ret)}
    ELSE {p \in {PropertyNames[i] : i \in 1..Len(PropertyNames)} :
            \E k \in 1..Len(ret.items) :
                /\ Len(ret.items[k][1]) > Len(Chars(p))
                /\ SubSeq(ret.items[k][1], 1, Len(Chars(p)) + 1) = Chars(p) \o <<"_">>
                /\ ~(/\ DictHas(Metadata(component_data), ret.items[k][1])
                     /\ DictGet(Metadata(component_data), ret.items[k][1])
                           = ret.items[k][2])}

\* Fitting and shaping property_name of the component raises.
FitRaises(component_data, property_name, args) ==
    Shaped(Metadata(component_data), property_name,
           spline_one(EmptyCache, PropertyFrame(HorizonsOf(component_data), property_name),
                      args.lam, args.target_depths, args.vlow, args.vhigh).out,
           args.output_type, args.mode).raised # ""

\* C20 as stated, for the modes dcm and 1cm: mpspline_one returns without
\* error and its output holds exactly the requested properties that exist as
\* numeric properties of the horizons.
C20_ExactlyRequestedExisting ==
    (ValidSingleCall /\ call.op = "mpspline_one" /\ call.args.mode \in {"dcm", "1cm"})
        => /\ result.raised = ""
           /\ OutputProps(result.ret, call.component_data, call.args.output_type)
                = Requested(call.args.var_name, Existing(call.component_data))
                    \cap Existing(call.component_data)

\* What the code does: the output of mpspline_one holds the requested
\* properties that exist as numeric properties of the horizons except those
\* whose fit raises; a requested property absent from the data yields no
\* output and no error, a property not requested yields no output, and the
\* call raises only with strict and a requested existing property whose fit
\* raises.
RequestedExistingFitted ==
    (ValidSingleCall /\ call.op = "mpspline_one")
        => With(Requested(call.args.var_name, Existing(call.component_data))
                    \cap Existing(call.component_data), LAMBDA selected :
              /\ result.raised # ""
                    <=> (call.args.strict
                         /\ \E p \in selected : FitRaises(call.component_data, p, call.args))
              /\ result.raised = ""
                    => OutputProps(result.ret, call.component_data, call.args.output_type)
                         = {p \in selected : ~FitRaises(call.component_data, p, call.args)})

\* sand and the absent silt are requested of a component with clay and sand:
\* the output holds sand alone.
AbsentRequestedReached ==
    /\ ValidSingleCall /\ call.op = "mpspline_one" /\ call.component_data = CompBoth
    /\ call.args.var_name = [kind |-> "list", names |-> <<"sand", "silt">>]
    /\ result.raised = ""
    /\ OutputProps(result.ret, call.component_data, call.args.output_type) = {"sand"}

\* A requested existing property whose fit raises is left out without strict.
C20_RaisingFitReached ==
    /\ ValidSingleCall /\ call.op = "mpspline_one" /\ call.component_data = CompHalf
    /\ call.args.var_name = [kind |-> "str", name |-> "clay"] /\ ~call.args.strict
    /\ FitRaises(CompHalf, "clay", call.args)
    /\ result.raised = "" /\ OutputProps(result.ret, call.component_data, call.args.output_type) = {}


(***************************************************************************)
(* The mode icm of mpspline_one                                            *)
(***************************************************************************)

\* The number of estimates in ret: records in long form, in wide form the
\* columns that the metadata of the component does not have.
OutputCount(ret, component_data, output_type) ==
    IF output_type = "long" THEN Len(ret)
    ELSE Cardinality(Keys(ret) \ Keys(Metadata(component_data)))

\* C21: with mode = 'icm', mpspline_one returns one estimate per input
\* horizon per processed property, in long form as one record per horizon
\* and in wide form as one column per horizon.
C21_IcmOnePerHorizon ==
    (ValidSingleCall /\ call.op = "mpspline_one" /\ call.args.mode = "icm")
        => /\ result.raised = ""
           /\ OutputCount(result.ret, call.component_data, call.args.output_type)
                = Len(PropertiesToProcess(call.args.var_name,
                                          Properties(HorizonsOf(call.component_data))))
                    * Len(HorizonsOf(call.component_data))

\* What mode = 'icm' gives: spline_one returns no 'est_icm', so every
\* processed property ends in KeyError, raised again with strict and leaving
\* no output without.
IcmGivesNothing ==
    (/\ ValidSingleCall /\ call.op = "mpspline_one" /\ call.args.mode = "icm"
     /\ PropertiesToProcess(call.args.var_name,
                            Properties(HorizonsOf(call.component_data))) # <<>>)
        => IF call.args.strict THEN result.raised = "KeyError"
           ELSE /\ result.raised = ""
                /\ OutputCount(result.ret, call.component_data, call.args.output_type) = 0

IcmWideReached ==
    /\ ValidSingleCall /\ call.op = "mpspline_one" /\ call.args.mode = "icm"
    /\ call.args.output_type = "wide" /\ ~call.args.strict
    /\ call.component_data = CompBoth /\ result.ret = Metadata(CompBoth)


(***************************************************************************)
(* Interval names                                                          *)
(***************************************************************************)

\* C22: the name '<top:03d>_<bottom:03d>_cm' of a target interval of
\* non-negative integers, parsed the way mpspline_one parses it (trailing
\* '_', 'c', 'm' stripped, split on '_', leading zeros dropped), gives back
\* (top, bottom); so record j of a property in long form carries the bounds
\* of target interval j.
C22_NameRoundTrip ==
    /\ (call.op = "names_dcm" /\ result.state = "returned")
          => /\ result.raised = ""
             /\ Len(NameParts(result.depth_name)) = 2
             /\ <<result.upper, result.lower>> = <<call.top, call.bottom>>
    /\ (/\ call.op = "spline_one" /\ result.state = "returned" /\ result.raised = "")
          => \A j \in 1..Len(call.target_depths) :
                <<ParseBound(NameParts(result.out.names_dcm[j])[1]),
                  ParseBound(NameParts(result.out.names_dcm[j])[2])>>
                    = call.target_depths[j]

\* The interval (100, 1010): a three-digit and a four-digit bound, trailing
\* and inner zeros.
C22_Witness ==
    /\ call.op = "names_dcm" /\ result.state = "returned"
    /\ call.top = 100 /\ call.bottom = 1010
    /\ result.depth_name = <<"1", "0", "0", "_", "1", "0", "1", "0", "_", "c", "m">>
    /\ result.upper = 100 /\ result.lower = 1010

\* The interval (0, 5) of the GlobalSoilMap depths: zero padding on both bounds.
C22_PaddedReached ==
    /\ call.op = "names_dcm" /\ result.state = "returned"
    /\ call.top = 0 /\ call.bottom = 5
    /\ result.depth_name = <<"0", "0", "0", "_", "0", "0", "5", "_", "c", "m">>
    /\ result.upper = 0 /\ result.lower = 5


(***************************************************************************)
(* Gaps and overlaps in validate_horizon_sequence                          *)
(***************************************************************************)

\* Horizon j comes after horizon i in the order of the upper depths, ties
\* kept in the order given.
After(horizons, i, j) ==
    RLt(horizons[i].upper, horizons[j].upper)
        \/ (horizons[i].upper = horizons[j].upper /\ i < j)

\* Horizon j is the depth-neighbour below horizon i.
NextBelow(horizons, i, j) ==
    /\ After(horizons, i, j)
    /\ \A k \in 1..Len(horizons) :
          After(horizons, i, k) => (k = j \/ After(horizons, j, k))

\* The pairs of depth-neighbours with a gap, and with an overlap, between them.
GapPairs(horizons) ==
    {<<i, j>> \in (1..Len(horizons)) \X (1..Len(horizons)) :
        NextBelow(horizons, i, j) /\ RLt(horizons[i].lower, horizons[j].upper)}

OverlapPairs(horizons) ==
    {<<i, j>> \in (1..Len(horizons)) \X (1..Len(horizons)) :
        NextBelow(horizons, i, j) /\ RLt(horizons[j].upper, horizons[i].lower)}

\* Every horizon is well formed on its own: 0 <= upper < lower, finite, at
\* least min_horizon_thickness thick, not below max_horizon_depth, and its
\* property values are finite.
NoOtherDefect(horizons) ==
    /\ Len(horizons) >= MIN_HORIZONS
    /\ \A i \in 1..Len(horizons) :
          /\ WellFormed(horizons[i])
          /\ RLe(Num(min_horizon_thickness), RSub(horizons[i].lower, horizons[i].upper))
          /\ RLe(horizons[i].lower, Num(max_horizon_depth))
          /\ \A p \in DOMAIN horizons[i].props : IsFinite(horizons[i].props[p])

CountOf(warnings, kind) == Cardinality({k \in 1..Len(warnings) : warnings[k] = kind})

\* C23: a sequence whose only defect is a gap or an overlap between
\* depth-neighbours is reported valid, without errors and with one warning
\* per gap and per overlap, and HorizonSequence accepts it without raising,
\* with strict and without.
C23_GapsAndOverlapsWarn ==
    /\ (/\ call.op = "validate_horizon_sequence" /\ result.state = "returned"
        /\ NoOtherDefect(call.horizons))
          => /\ result.raised = ""
             /\ result.validation.is_valid
             /\ result.validation.errors = <<>>
             /\ CountOf(result.validation.warnings, "Gap detected")
                  = Cardinality(GapPairs(call.horizons))
             /\ CountOf(result.validation.warnings, "Overlap detected")
                  = Cardinality(OverlapPairs(call.horizons))
             /\ Len(result.validation.warnings)
                  = Cardinality(GapPairs(call.horizons))
                      + Cardinality(OverlapPairs(call.horizons))
    /\ (/\ call.op = "HorizonSequence" /\ result.state = "returned"
        /\ NoOtherDefect(call.horizons))
          => /\ result.raised = ""
             /\ result.horizons = call.horizons

\* Two horizons given out of depth order, 2-3 and 0-1, with a gap between them.
C23_Witness ==
    /\ call.op = "validate_horizon_sequence" /\ result.state = "returned"
    /\ call.strict
    /\ call.horizons = <<Horizon(Num(2), Num(3), [clay |-> Num(1)]),
                         Horizon(Num(0), Num(1), [clay |-> Num(1)])>>
    /\ result.validation.is_valid
    /\ result.validation.warnings = <<"Gap detected">>

C23_OverlapAccepted ==
    /\ call.op = "HorizonSequence" /\ result.state = "returned" /\ call.strict
    /\ call.horizons = <<Horizon(Num(0), Num(2), [clay |-> Num(1)]),
                         Horizon(Num(1), Num(3), [clay |-> Num(1)])>>
    /\ result.raised = ""

\* What any interpreter sorts by enters the warnings only.
SortEntersWarningsOnly ==
    (call.op = "validate_horizon_sequence" /\ result.state = "returned")
        => \A cpython \in CPythons :
              LET other == validate_horizon_sequence(call.horizons, call.strict, cpython)
              IN  /\ other.raised = result.raised
                  /\ result.raised = ""
                        => /\ other.is_valid = result.validation.is_valid
                           /\ other.errors = result.validation.errors
                           /\ NoOtherDefect(call.horizons)
                                 => other.warnings = result.validation.warnings

\* The horizons NaN-2, 2-3, 0-1: CPython up to 3.12 leaves them in this order
\* and reports an overlap and a gap; from 3.13 on sorted() gives 0-1, NaN-2,
\* 2-3, which has neither.
NaNUpperByInterpreter ==
    /\ call.op = "validate_horizon_sequence" /\ result.state = "returned"
    /\ call.horizons = <<Horizon(NaN, Num(2), [clay |-> Num(1)]),
                         Horizon(Num(2), Num(3), [clay |-> Num(1)]),
                         Horizon(Num(0), Num(1), [clay |-> Num(1)])>>
    /\ result.raised = ""
    /\ validate_horizon_sequence(call.horizons, call.strict, "3.12").warnings
          = <<"Overlap detected", "Gap detected">>
    /\ validate_horizon_sequence(call.horizons, call.strict, "3.13").warnings = <<>>

\* The properties are warned about in the order of the horizon's keys, sand
\* before clay where the dict has them so, and silt as any other.
PropertiesInDictOrder ==
    /\ call.op = "validate_horizon_sequence" /\ result.state = "returned"
    /\ call.horizons
          = <<HorizonInOrder(Num(0), Num(2), [sand |-> Inf, clay |-> NaN], <<"sand", "clay">>),
              Horizon(Num(2), Num(3), [clay |-> Num(1), silt |-> NaN])>>
    /\ result.raised = ""
    /\ result.validation.warnings = <<"property is inf", "property is nan", "property is nan">>

\* A horizon without an upper depth leaves sorted() with the order given:
\* 2-3, NaN-2, 0-1 stay as they are, and the last two are reported as an
\* overlap where the depths 0-1 and 2-3 have a gap.
NaNUpperKeepsOrder ==
    /\ call.op = "validate_horizon_sequence" /\ result.state = "returned"
    /\ call.horizons = <<Horizon(Num(2), Num(3), [clay |-> Num(1)]),
                         Horizon(NaN, Num(2), [clay |-> Num(1)]),
                         Horizon(Num(0), Num(1), [clay |-> Num(1)])>>
    /\ result.raised = ""
    /\ result.validation.warnings = <<"Overlap detected">>


(***************************************************************************)
(* The number of intervals handed to the fitting core                      *)
(***************************************************************************)

\* C24: whenever spline_one is done with a DataFrame, it has either fitted a
\* profile of n >= 2 cleaned intervals, or returned a substitute result
\* (all-NaN, or the single value broadcast) without calling
\* _estimate_spline_parameters.
C24_CoreGetsTwoIntervals ==
    (call.op = "spline_one" /\ result.state = "returned")
        => \/ /\ result.n = -1 /\ result.raised = ""
              /\ result.out.path \in {"invalid", "single"}
           \/ result.n >= 2

\* What reaches the core instead: a frame whose rows are all dropped by the
\* depth filters of lines 399-406 is handed on with no interval, and the
\* matrix builder raises ValueError.
EmptyProfileRaises ==
    (call.op = "spline_one" /\ result.state = "returned")
        => /\ result.n \in {-1, 0} \cup {k \in Nat : k >= 2}
           /\ result.n = 0 <=> (/\ ~_validate_and_prepare_data(call.df).none
                                /\ _validate_and_prepare_data(call.df).rows = <<>>)
           /\ result.n = 0 => result.raised = "ValueError"

EmptyProfileReached ==
    /\ call.op = "spline_one" /\ result.state = "returned"
    /\ call.df = <<Row(Num(0), Num(0), Num(1)), Row(Num(2), Num(2), Num(2))>>
    /\ result.n = 0 /\ result.raised = "ValueError"


(***************************************************************************)
(* The profile _validate_and_prepare_data returns                          *)
(***************************************************************************)

\* C25: whenever _validate_and_prepare_data returns a profile (not None),
\* its intervals are sorted by upper boundary, every interval has
\* 0 <= upper < lower, no value is missing, and consecutive intervals do not
\* overlap (lower_i <= upper_{i+1}); so every thickness is positive and every
\* gap is non-negative.
C25_ProfileWellFormed ==
    (call.op = "_validate_and_prepare_data" /\ result.state = "returned" /\ ~result.none)
        => /\ \A i \in 1..Len(result.s) :
                 /\ RLe(Zero, result.s[i].UD)
                 /\ RLt(result.s[i].UD, result.s[i].LD)
                 /\ ~isnan(result.s[i].v)
                 /\ RLt(Zero, RSub(result.s[i].LD, result.s[i].UD))
           /\ \A i \in 1..(Len(result.s) - 1) :
                 /\ RLe(result.s[i].UD, result.s[i + 1].UD)
                 /\ RLe(result.s[i].LD, result.s[i + 1].UD)
                 /\ RLe(Zero, RSub(result.s[i + 1].UD, result.s[i].LD))

\* Three rows given out of order, the middle value missing: the profile is
\* the two remaining rows in depth order, with a gap between them.
C25_Witness ==
    /\ call.op = "_validate_and_prepare_data" /\ result.state = "returned"
    /\ call.df = <<Row(Num(2), Num(4), Num(1)), Row(Num(1), Num(2), NaN),
                   Row(Num(0), Num(1), Num(2))>>
    /\ ~result.none
    /\ result.s = <<Row(Num(0), Num(1), Num(2)), Row(Num(2), Num(4), Num(1))>>


(***************************************************************************)
(* The matrix R of the builder                                             *)
(***************************************************************************)

\* Entry (i, j) of the matrix the claim describes for thicknesses th and
\* gaps gp.
TridiagonalEntry(th, gp, i, j) ==
    IF i = j THEN RAdd(RMul(Num(2), RAdd(th[i], th[i + 1])), RMul(Num(6), gp[i]))
    ELSE IF j = i + 1 \/ i = j + 1 THEN th[(IF i < j THEN j ELSE i)]
    ELSE Zero

\* C26: for a depth pattern of n >= 2 intervals, with th_i = lower_i -
\* upper_i and gp_i = upper_{i+1} - lower_i, the R that the builder makes
\* and inverts is an (n-1) x (n-1) symmetric tridiagonal matrix with diagonal
\* entries 2 * (th_i + th_{i+1}) + 6 * gp_i, super- and sub-diagonal entries
\* th_{i+1}, and zero everywhere else.  The call returns the thicknesses and
\* gaps R is made of, and the inverse of R, unless an entry of R is not
\* finite, which is when it raises.
C26_TridiagonalR ==
    (/\ call.op = "_get_spline_matrices" /\ result.state = "returned"
     /\ Len(call.depths_top) >= 2)
        => LET n == Len(call.depths_top)
               th == [i \in 1..n |-> RSub(call.depths_bottom[i], call.depths_top[i])]
               gp == [i \in 1..(n - 1) |->
                         RSub(call.depths_top[i + 1], call.depths_bottom[i])]
               R == BuildR(Thickness(call.depths_top, call.depths_bottom),
                           Gaps(call.depths_top, call.depths_bottom))
           IN  /\ Len(R) = n - 1
               /\ \A i \in 1..(n - 1) :
                     /\ Len(R[i]) = n - 1
                     /\ \A j \in 1..(n - 1) :
                           /\ R[i][j] = TridiagonalEntry(th, gp, i, j)
                           /\ R[i][j] = R[j][i]
               /\ (result.raised = "") = ~HasNonFinite(R)
               /\ result.raised = ""
                     => /\ result.ret.th = th /\ result.ret.gp = gp
                        /\ Det(R) # Zero => MatMul(R, result.ret.R_inv, n - 1) = Eye(n - 1)

\* Four intervals with gaps after the first and the third: R is 3 x 3 with
\* the diagonal 12, 12, 14, the off-diagonals 2 and 1, and zero corners.
C26_Witness ==
    /\ call.op = "_get_spline_matrices" /\ result.state = "returned"
    /\ call.depths_top = <<Num(0), Num(2), Num(5), Num(7)>>
    /\ call.depths_bottom = <<Num(1), Num(4), Num(6), Num(10)>>
    /\ result.raised = ""
    /\ result.ret.th = <<Num(1), Num(2), Num(1), Num(3)>>
    /\ result.ret.gp = <<Num(1), Num(1), Num(1)>>
    /\ BuildR(result.ret.th, result.ret.gp)
         = << <<Num(12), Num(2), Num(0)>>,
              <<Num(2), Num(12), Num(1)>>,
              <<Num(0), Num(1), Num(14)>> >>


(***************************************************************************)
(* _get_spline_matrices under concurrent threads                           *)
(***************************************************************************)

\* C27: when several threads call _get_spline_matrices on the shared cache,
\* in no interleaving does a lookup fail because the key found by the
\* membership test was evicted before the read, does a caller receive the
\* matrices of another key, or does the cache exceed its size bound: every
\* call ends as it does alone, with the matrices of its own key or with the
\* exception of its own build.
C27_AtomicCacheAccess ==
    /\ \A t \in Threads :
          At(t, "done")
             => With(BuildMatrices(call[t].depths_top, call[t].depths_bottom, call[t].lam),
                     LAMBDA alone :
                        /\ result[t].raised = alone.raised
                        /\ alone.raised = "" => result[t].ret = alone)
    /\ CacheLen(_MATRIX_CACHE) <= _MAX_CACHE_SIZE

\* The parts of C27 one by one.  No lookup fails:
NoFailedLookup == \A t \in Threads : At(t, "done") => result[t].raised # "KeyError"

\* a build that raises stores nothing, and its caller gets the exception:
RaisingBuildNotStored ==
    /\ ~CacheHas(_MATRIX_CACHE, KeyOf(RaisingCall))
    /\ \A t \in Threads :
          (At(t, "done") /\ call[t] = RaisingCall) => result[t].raised = "ValueError"

RaisingBuildReached ==
    \E t \in Threads :
        /\ At(t, "done") /\ call[t] = RaisingCall /\ result[t].raised = "ValueError"
        /\ DOMAIN _MATRIX_CACHE.m # {}

\* no caller receives the matrices of another key:
OwnMatricesOnly ==
    \A t \in Threads :
        (At(t, "done") /\ result[t].raised = "")
            => result[t].ret
                 = BuildMatrices(call[t].depths_top, call[t].depths_bottom, call[t].lam)

\* the cache stays within its bound:
ThreadsKeepBound == CacheLen(_MATRIX_CACHE) <= _MAX_CACHE_SIZE

\* and the size that threads passing the test of line 71 together reach.
ThreadsOvershoot == CacheLen(_MATRIX_CACHE) <= _MAX_CACHE_SIZE + NumThreads

\* A thread found its key, another cleared the cache, and the read raised.
FailedLookupReached ==
    \E t \in Threads : At(t, "done") /\ result[t].raised = "KeyError"


(***************************************************************************)
(* is_valid and the errors of validate_horizon_sequence                    *)
(***************************************************************************)

\* C28: with strict and without, is_valid is False exactly when the errors
\* list is non-empty, and HorizonSequence raises ValueError whenever the
\* validation recorded an error (a horizon deeper than the maximum horizon
\* depth, in strict mode, included).
C28_InvalidIffErrors ==
    /\ (/\ call.op = "validate_horizon_sequence" /\ result.state = "returned"
        /\ result.raised = "")
          => (~result.validation.is_valid <=> result.validation.errors # <<>>)
    /\ (/\ call.op = "HorizonSequence" /\ result.state = "returned"
        /\ validate_horizon_sequence(call.horizons, call.strict, SomeCPython).raised = ""
        /\ validate_horizon_sequence(call.horizons, call.strict, SomeCPython).errors # <<>>)
          => result.raised = "ValueError"

\* Without strict the two agree.
ConsistentWithoutStrict ==
    (/\ call.op = "validate_horizon_sequence" /\ result.state = "returned"
     /\ result.raised = "" /\ ~call.strict)
        => (~result.validation.is_valid <=> result.validation.errors # <<>>)

\* With strict they differ exactly when the only errors are horizons deeper
\* than max_horizon_depth: lines 140-143 append the error and leave is_valid.
StrictDepthErrorKeepsValid ==
    (/\ call.op = "validate_horizon_sequence" /\ result.state = "returned"
     /\ result.raised = "" /\ call.strict)
        => /\ ~result.validation.is_valid => result.validation.errors # <<>>
           /\ (result.validation.is_valid /\ result.validation.errors # <<>>)
                 => \A k \in 1..Len(result.validation.errors) :
                       result.validation.errors[k] = "exceeds max depth"

\* A strict HorizonSequence accepts a horizon of 401 cm although the
\* validation recorded the error.
DeepHorizonAccepted ==
    /\ call.op = "HorizonSequence" /\ result.state = "returned" /\ call.strict
    /\ validate_horizon_sequence(call.horizons, TRUE, SomeCPython).raised = ""
    /\ validate_horizon_sequence(call.horizons, TRUE, SomeCPython).errors
          = <<"exceeds max depth">>
    /\ result.raised = ""


(***************************************************************************)
(* The variables of spline_multiple                                        *)
(***************************************************************************)

\* The names var_name asks for, and those of them that are columns of df.
AskedNames(var_name) ==
    IF var_name.kind = "str" THEN <<var_name.name>> ELSE var_name.names

PresentNames(var_name, column) ==
    {AskedNames(var_name)[i] : i \in 1..Len(AskedNames(var_name))} \cap Columns(column)

SitesOf(df) == {df[i].SID : i \in 1..Len(df)}

\* site_results has exactly one result per site of df, keyed by the site, of
\* the length of target_depths, and all-NaN for a site whose fit raises.
OnePerSite(site_results, df, lam, target_depths, vlow, vhigh) ==
    /\ DOMAIN site_results = SitesOf(df)
    /\ \A k \in SitesOf(df) :
          /\ Len(site_results[k].est_dcm) = Len(target_depths)
          /\ Len(site_results[k].names_dcm) = Len(target_depths)
          /\ spline_one(EmptyCache, SiteRows(df, k), lam, target_depths,
                        vlow, vhigh).out.raised # ""
                => /\ \A j \in 1..Len(target_depths) : isnan(site_results[k].est_dcm[j])
                   /\ site_results[k].est_1cm = <<>>
                   /\ isnan(site_results[k].rmse) /\ isnan(site_results[k].rmse_iqr)

\* C29: spline_multiple skips a requested variable that is no column of the
\* DataFrame without raising, for a single name as well as for a list; for
\* every variable that is a column it returns exactly one result per site,
\* keyed by the site identifier, a site whose fit raises having an all-NaN
\* result of the right length.
C29_AbsentVariableSkipped ==
    (call.op = "spline_multiple:var_name" /\ result.state = "returned")
        => /\ result.raised = ""
           /\ IF result.unwrapped
              THEN PresentNames(call.var_name, call.column) # {}
                      => OnePerSite(result.results,
                                    AsVariable(call.df, AskedNames(call.var_name)[1],
                                               call.column),
                                    call.lam, call.target_depths, call.vlow, call.vhigh)
              ELSE /\ DOMAIN result.results = PresentNames(call.var_name, call.column)
                   /\ \A v \in PresentNames(call.var_name, call.column) :
                         OnePerSite(result.results[v], AsVariable(call.df, v, call.column),
                                    call.lam, call.target_depths, call.vlow, call.vhigh)

\* What holds: the call raises KeyError exactly when var_name is one name,
\* given alone or as a list of one, that is no column; in every other case
\* absent names are skipped and present ones have one result per site.
SingleAbsentRaises ==
    (call.op = "spline_multiple:var_name" /\ result.state = "returned")
        => /\ result.raised = "KeyError"
                <=> (/\ Len(AskedNames(call.var_name)) = 1
                     /\ PresentNames(call.var_name, call.column) = {})
           /\ result.raised \in {"", "KeyError"}
           /\ (result.raised = "" /\ result.unwrapped)
                 => OnePerSite(result.results,
                               AsVariable(call.df, AskedNames(call.var_name)[1], call.column),
                               call.lam, call.target_depths, call.vlow, call.vhigh)
           /\ (result.raised = "" /\ ~result.unwrapped)
                 => /\ DOMAIN result.results = PresentNames(call.var_name, call.column)
                    /\ \A v \in PresentNames(call.var_name, call.column) :
                          OnePerSite(result.results[v], AsVariable(call.df, v, call.column),
                                     call.lam, call.target_depths, call.vlow, call.vhigh)

\* In a list of two names the absent one is skipped, and the site whose fit
\* raises has the all-NaN result.
ListSkipReached ==
    /\ call.op = "spline_multiple:var_name" /\ result.state = "returned"
    /\ call.var_name = [kind |-> "list", names |-> <<"silt", "clay">>]
    /\ call.df = SiteOf(1, FrameA) \o SiteOf(2, FrameNoRows) \o SiteOf(3, FrameGap)
    /\ result.raised = "" /\ DOMAIN result.results = {"clay"}
    /\ DOMAIN result.results["clay"] = {1, 2, 3}
    /\ result.results["clay"][2].path = "except"

\* A depth column asked as the variable is fitted like any other column: the
\* call returns one result per site and has filled the cache.
DepthColumnFitted ==
    /\ call.op = "spline_multiple:var_name" /\ result.state = "returned"
    /\ call.var_name = [kind |-> "str", name |-> "UD"]
    /\ call.df = SiteOf(1, FrameA) \o SiteOf(3, FrameGap)
    /\ result.raised = "" /\ result.unwrapped
    /\ DOMAIN result.results = {1, 3}
    /\ result.results[1].path = "fit"
    /\ result.results[1].est_dcm
          = spline_one(EmptyCache, <<Row(Num(0), Num(2), Num(0)), Row(Num(2), Num(3), Num(2))>>,
                       call.lam, call.target_depths, call.vlow, call.vhigh).out.est_dcm
    /\ DOMAIN _MATRIX_CACHE.m # {}

SingleAbsentReached ==
    /\ call.op = "spline_multiple:var_name" /\ result.state = "returned"
    /\ call.var_name = [kind |-> "str", name |-> "silt"]
    /\ result.raised = "KeyError"

=============================================================================
